---- MODULE Spec2Model ----
(***************************************************************************)
(* A model of parts of the swc tool chain:                                 *)
(*   - span algebra, BOM stripping and line lookup                         *)
(*                                        (common/src/syntax_pos.rs)       *)
(*   - constructor lowering               (es2015/classes/constructor.rs)  *)
(*   - destructuring lowering             (es2015/destructuring.rs)        *)
(* Syntax trees are records tagged by the field t; an absent Option is the *)
(* record Nil.  Every unit has its own specification over the shared       *)
(* variables; the variables of the other units stay at their idle values.  *)
(***************************************************************************)
EXTENDS Integers, Sequences, FiniteSets, TLC

VARIABLES
    unit,       \* which unit this behaviour exercises
    pc,         \* position of the unit's driver
    spanA,      \* Span::to / between: self
    spanB,      \* Span::to / between: end
    spanOut,    \* the span returned
    bomSrc,     \* remove_bom: the String (as UTF-8 bytes), mutated in place
    bomLog,     \* the value of the String before and after each call of remove_bom
    ctorIn,     \* the constructor handed to the class pass: body, mark, is_constructor_default
    ctorMode,   \* the mode SuperCallFinder::find returned
    ctorOut,    \* the rewritten constructor
    dIn,        \* destructuring: the statement handed to a fresh AssignFolder, and its Config
    dOut,       \* the folded statement, the folder's vars and whether the fold aborted
    dRun,       \* the outcome of running the emitted declarators on a value
    nullIn,     \* can_be_null: the expression
    nullOut,    \* its result, or the panic
    fnIn,       \* fold_fn_like: parameters and body statements
    fnOut,      \* the parameters and body statements returned
    vecIn,      \* Fold<Vec<T>> for Destructuring: Config and the statement list
    vecOut,     \* has_destruturing of the list, the list returned, the panic
    lineIn,     \* lookup_line: the line starts and the position
    lineOut,    \* the index returned; for SourceFile::lookup_line the Option, or the panic
    melIn,      \* MemberExprLit: the member expression
    melOut,     \* the member expression folded once
    melAgain    \* the result folded once more

spanVars == <<spanA, spanB, spanOut>>
bomVars == <<bomSrc, bomLog>>
ctorVars == <<ctorIn, ctorMode, ctorOut>>
dVars == <<dIn, dOut, dRun>>
restVars == <<nullIn, nullOut, fnIn, fnOut, vecIn, vecOut, lineIn, lineOut>>
melVars == <<melIn, melOut, melAgain>>

vars == <<unit, pc, spanVars, bomVars, ctorVars, dVars, restVars, melVars>>

\* what an action of one unit leaves alone
OutsideSpan == <<unit, bomVars, ctorVars, dVars, restVars, melVars>>
OutsideBom == <<unit, spanVars, ctorVars, dVars, restVars, melVars>>
OutsideCtor == <<unit, spanVars, bomVars, dVars, restVars, melVars>>
OutsideD == <<unit, spanVars, bomVars, ctorVars, restVars, melVars>>
OutsideNull == <<unit, spanVars, bomVars, ctorVars, dVars, fnIn, fnOut, vecIn, vecOut, lineIn, lineOut,
                melVars>>
OutsideFn == <<unit, spanVars, bomVars, ctorVars, dVars, nullIn, nullOut, vecIn, vecOut, lineIn, lineOut,
                melVars>>
OutsideVec == <<unit, spanVars, bomVars, ctorVars, dVars, nullIn, nullOut, fnIn, fnOut, lineIn, lineOut,
                melVars>>
OutsideLine == <<unit, spanVars, bomVars, ctorVars, dVars, nullIn, nullOut, fnIn, fnOut, vecIn, vecOut,
                melVars>>
OutsideMel == <<unit, spanVars, bomVars, ctorVars, dVars, restVars>>

Nil == [t |-> "None"]

Min(a, b) == IF a <= b THEN a ELSE b
Max(a, b) == IF a >= b THEN a ELSE b

(***************************************************************************)
(* Bounds.                                                                 *)
(***************************************************************************)
\* positions are the multiples of 5 up to 5 * MaxPosIdx
MaxPosIdx == 5
\* syntax contexts 0 (root) .. MaxCtxt
MaxCtxt == 2
\* characters of a source text
MaxStrLen == 4
\* calls of remove_bom on one String
MaxBomCalls == 2
\* expression nodes of a constructor body
MaxCtorNodes == 4
\* arguments of a super(..) call handed to make_possible_return_value
MaxSuperArgs == 2
\* nodes of a destructuring pattern
MaxPatNodes == 3
\* elements of an array literal
MaxLitLen == 3
\* nesting depth of the expressions handed to can_be_null
MaxNullDepth == 2
\* parameters of a function handed to fold_fn_like (a rest parameter not counted)
MaxParams == 3
\* statements of its body
MaxBodyLen == 2
\* statements of a list handed to Fold<Vec<T>> for Destructuring
MaxStmts == 3
\* line starts of a source file
MaxLines == 3
\* line starts and positions are 0 .. MaxLinePos
MaxLinePos == 6
\* characters of a generated property name
MaxNameLen == 2
\* member expressions nested in the object of a member expression
MaxMemberDepth == 2

(***************************************************************************)
(* Unit "span": SpanData and Span::to.                                     *)
(***************************************************************************)
\* SyntaxContext::empty(): the root context
EmptyCtxt == 0

Positions == {5 * k : k \in 0..MaxPosIdx}
Ctxts == 0..MaxCtxt

\* struct SpanData { lo, hi, ctxt }, lo <= hi
SpanData == {s \in [lo : Positions, hi : Positions, ctxt : Ctxts] : s.lo <= s.hi}

SpanNew(lo, hi, ctxt) == [lo |-> lo, hi |-> hi, ctxt |-> ctxt]

\* Span::to with the two early returns exchanged
SpanToExchanged(self, end) ==
    IF self.ctxt # end.ctxt /\ self.ctxt = EmptyCtxt THEN self
    ELSE IF self.ctxt # end.ctxt /\ end.ctxt = EmptyCtxt THEN end
    ELSE SpanNew(Min(self.lo, end.lo), Max(self.hi, end.hi),
                 IF self.ctxt = EmptyCtxt THEN end.ctxt ELSE self.ctxt)

\* Span::to from the start of self to the end of end, whatever their order
SpanToFromSelf(self, end) ==
    IF self.ctxt # end.ctxt /\ self.ctxt = EmptyCtxt THEN end
    ELSE IF self.ctxt # end.ctxt /\ end.ctxt = EmptyCtxt THEN self
    ELSE SpanNew(self.lo, end.hi,
                 IF self.ctxt = EmptyCtxt THEN end.ctxt ELSE self.ctxt)

\* Span::to: a differing context returns the macro span on its own
SpanTo(self, end) ==
    IF self.ctxt # end.ctxt /\ self.ctxt = EmptyCtxt THEN end
    ELSE IF self.ctxt # end.ctxt /\ end.ctxt = EmptyCtxt THEN self
    ELSE SpanNew(Min(self.lo, end.lo), Max(self.hi, end.hi),
                 IF self.ctxt = EmptyCtxt THEN end.ctxt ELSE self.ctxt)

\* Span::between with the context chosen as Span::to chooses it
SpanBetweenCtxtAsTo(self, end) ==
    SpanNew(self.hi, end.lo,
            IF self.ctxt = EmptyCtxt THEN end.ctxt ELSE self.ctxt)

\* Span::between
SpanBetween(self, end) ==
    SpanNew(self.hi, end.lo,
            IF end.ctxt = EmptyCtxt THEN end.ctxt ELSE self.ctxt)

\* Span::contains
SpanContains(self, other) == self.lo <= other.lo /\ other.hi <= self.hi

IdleSpan == SpanNew(0, 0, EmptyCtxt)

BomIdle == bomSrc = <<>> /\ bomLog = <<>>

CtorIdle == ctorIn = Nil /\ ctorMode = Nil /\ ctorOut = Nil

DIdle == dIn = Nil /\ dOut = Nil /\ dRun = Nil

SpanIdle == spanA = IdleSpan /\ spanB = IdleSpan /\ spanOut = Nil

NullIdle == nullIn = Nil /\ nullOut = Nil

FnIdle == fnIn = Nil /\ fnOut = Nil

VecIdle == vecIn = Nil /\ vecOut = Nil

LineIdle == lineIn = Nil /\ lineOut = Nil

MelIdle == melIn = Nil /\ melOut = Nil /\ melAgain = Nil

\* the units added after the first four are at rest
RestIdle == NullIdle /\ FnIdle /\ VecIdle /\ LineIdle /\ MelIdle

\* the first four units are at rest
FirstIdle == SpanIdle /\ BomIdle /\ CtorIdle /\ DIdle

InitSpan ==
    /\ unit = "span"
    /\ pc = "start"
    /\ spanA \in SpanData
    /\ spanB \in SpanData
    /\ spanOut = Nil
    /\ BomIdle
    /\ CtorIdle
    /\ DIdle
    /\ RestIdle

CallTo ==
    /\ unit = "span" /\ pc = "start"
    /\ spanOut' = SpanTo(spanA, spanB)
    /\ pc' = "to"
    /\ UNCHANGED <<spanA, spanB, OutsideSpan>>

CallBetween ==
    /\ unit = "span" /\ pc = "start"
    /\ spanOut' = SpanBetween(spanA, spanB)
    /\ pc' = "between"
    /\ UNCHANGED <<spanA, spanB, OutsideSpan>>

NextSpan == CallTo \/ CallBetween

SpecSpan == InitSpan /\ [][NextSpan]_vars

\* exactly one of the two contexts is the root context
OneRootCtxt(a, b) == (a.ctxt = EmptyCtxt) # (b.ctxt = EmptyCtxt)

C12_BetweenCtxtAsTo ==
    (unit = "span" /\ pc = "between") =>
        /\ spanOut.lo = spanA.hi
        /\ spanOut.hi = spanB.lo
        /\ spanOut.ctxt = (IF OneRootCtxt(spanA, spanB)
                           THEN (IF spanA.ctxt = EmptyCtxt THEN spanB.ctxt
                                 ELSE spanA.ctxt)
                           ELSE spanA.ctxt)

\* C20: for spans a and b of the same syntax context, a.to(b) contains a
\* and contains b.
C20_ToContainsBoth ==
    (unit = "span" /\ pc = "to" /\ spanA.ctxt = spanB.ctxt) =>
        /\ SpanContains(spanOut, spanA)
        /\ SpanContains(spanOut, spanB)

\* two disjoint spans of one non-root context after a.to(b), b before a
C20_Witness ==
    /\ unit = "span" /\ pc = "to"
    /\ spanA = SpanNew(15, 20, 1) /\ spanB = SpanNew(0, 5, 1)
    /\ spanOut = SpanNew(0, 20, 1)

(***************************************************************************)
(* Unit "bom": remove_bom on a String.  A String is its UTF-8 bytes; the   *)
(* texts are made of the characters U+FEFF (EF BB BF), "a" and "b".        *)
(***************************************************************************)
Bom == <<239, 187, 191>>

Chars == {"bom", "a", "b"}

\* the UTF-8 encoding of one character
Utf8(c) == IF c = "bom" THEN Bom ELSE IF c = "a" THEN <<97>> ELSE <<98>>

RECURSIVE Encode(_)
Encode(cs) == IF cs = <<>> THEN <<>> ELSE Utf8(Head(cs)) \o Encode(Tail(cs))

RECURSIVE SeqsUpTo(_, _)
\* the sequences over S of length at most n
SeqsUpTo(S, n) ==
    IF n = 0 THEN {<<>>}
    ELSE LET shorter == SeqsUpTo(S, n - 1)
         IN  shorter \cup {<<x>> \o s : x \in S, s \in {q \in shorter : Len(q) = n - 1}}

Texts == {Encode(cs) : cs \in SeqsUpTo(Chars, MaxStrLen)}

\* str::starts_with
StartsWith(s, p) == Len(s) >= Len(p) /\ SubSeq(s, 1, Len(p)) = p

\* String::drain(..n)
Drain(s, n) == SubSeq(s, n + 1, Len(s))

\* remove_bom that drains whether or not the text starts with a BOM
RemoveBomUnguarded(src) == Drain(src, 3)

\* fn remove_bom(src: &mut String)
RemoveBom(src) == IF StartsWith(src, Bom) THEN Drain(src, 3) ELSE src

\* number of leading U+FEFF characters of a text
RECURSIVE LeadingBoms(_)
LeadingBoms(s) == IF StartsWith(s, Bom) THEN 1 + LeadingBoms(Drain(s, 3)) ELSE 0

InitBom ==
    /\ unit = "bom"
    /\ pc = "start"
    /\ bomSrc \in Texts
    /\ bomLog = <<>>
    /\ SpanIdle
    /\ CtorIdle
    /\ DIdle
    /\ RestIdle

\* one call of remove_bom on the String
CallRemoveBom ==
    /\ unit = "bom" /\ Len(bomLog) < MaxBomCalls
    /\ bomSrc' = RemoveBom(bomSrc)
    /\ bomLog' = Append(bomLog, <<bomSrc, RemoveBom(bomSrc)>>)
    /\ pc' = "removed"
    /\ UNCHANGED OutsideBom

NextBom == CallRemoveBom

SpecBom == InitBom /\ [][NextBom]_vars

\* C9 as stated: a second call of remove_bom changes nothing, whatever the
\* number of leading U+FEFF characters.
C9_RemoveBomIdempotent ==
    \A i \in 1..Len(bomLog) : i > 1 => bomLog[i][2] = bomLog[i - 1][2]

\* C9 amended: remove_bom(remove_bom(s)) = remove_bom(s) for every s that
\* starts with at most one U+FEFF character.
C9_IdempotentUpToOneBom ==
    \A i \in 1..Len(bomLog) :
        (i > 1 /\ LeadingBoms(bomLog[i - 1][1]) <= 1) => bomLog[i][2] = bomLog[i - 1][2]

\* a text with one leading U+FEFF after two calls: the first removed it
C9_Witness ==
    /\ unit = "bom" /\ Len(bomLog) >= 2
    /\ LeadingBoms(bomLog[1][1]) = 1
    /\ bomLog[1][2] = Drain(bomLog[1][1], 3)
    /\ Len(bomLog[1][2]) > 0

(***************************************************************************)
(* Syntax trees (the ast crate).  Expr, Pat and Stmt nodes are records     *)
(* tagged by t; ExprOrSpread is [spread, expr]; a callee or member object  *)
(* is an ExprOrSuper: an Expr or Super.                                    *)
(***************************************************************************)
Super == [t |-> "Super"]
This == [t |-> "This"]
\* an identifier of the source text: root hygiene mark
Ident(sym) == [t |-> "Ident", sym |-> sym, mark |-> 0]
\* an identifier whose span carries a mark
MarkedIdent(sym, mark) == [t |-> "Ident", sym |-> sym, mark |-> mark]
\* helper!(..): the identifier of an injected runtime helper
Helper(name) == [t |-> "Helper", name |-> name]
Arg(e) == [spread |-> FALSE, expr |-> e]
Spread(e) == [spread |-> TRUE, expr |-> e]
Call(callee, args) == [t |-> "Call", callee |-> callee, args |-> args]
Member(obj, prop, computed) ==
    [t |-> "Member", obj |-> obj, prop |-> prop, computed |-> computed]
Assign(left, right) == [t |-> "Assign", op |-> "=", left |-> left, right |-> right]
Arrow(body) == [t |-> "Arrow", body |-> body]
FnExpr(stmts) == [t |-> "Fn", body |-> stmts]
ClassExpr(stmts) == [t |-> "Class", ctor |-> stmts]
\* Pat::Ident
PIdent(id) == [t |-> "PIdent", id |-> id]
\* PatOrExpr::Expr
LExpr(e) == [t |-> "LExpr", expr |-> e]
SExpr(e) == [t |-> "SExpr", expr |-> e]
SReturn(arg) == [t |-> "SReturn", arg |-> arg]
SIf(test, cons, alt) == [t |-> "SIf", test |-> test, cons |-> cons, alt |-> alt]
Declarator(name, init) == [name |-> name, init |-> init]
SVar(kind, decls) == [t |-> "SVar", kind |-> kind, decls |-> decls]
\* Stmt::Decl(Decl::Fn(..)): a function declaration with its body
SFnDecl(stmts) == [t |-> "SFnDecl", body |-> stmts]

\* Mark::root()
RootMark == 0

IsSuperCall(e) == e.t = "Call" /\ e.callee.t = "Super"

(***************************************************************************)
(* Unit "ctor": SuperCallFinder, ConstructorFolder and                     *)
(* replace_this_in_constructor.                                            *)
(***************************************************************************)
\* Visit<CallExpr>, callee super, without the arm for a second super()
FinderSeeSuperOnce(v) ==
    IF v.mode = "None" /\ ~v.in_complex THEN [v EXCEPT !.mode = "Var"]
    ELSE IF v.mode = "None" /\ v.in_complex THEN [v EXCEPT !.mode = "Assign"]
    ELSE v

\* Visit<CallExpr>, callee super: None -> Var or Assign, Var -> Assign
FinderSeeSuper(v) ==
    IF v.mode = "None" /\ ~v.in_complex THEN [v EXCEPT !.mode = "Var"]
    ELSE IF v.mode = "None" /\ v.in_complex THEN [v EXCEPT !.mode = "Assign"]
    ELSE IF v.mode = "Var" THEN [v EXCEPT !.mode = "Assign"]
    ELSE v

RECURSIVE FinderVisitExpr(_, _)
RECURSIVE FinderVisitArgs(_, _)
RECURSIVE FinderVisitStmt(_, _)
RECURSIVE FinderVisitStmts(_, _)

\* the Visit impls of SuperCallFinder over expressions; Class and Function
\* are not entered
FinderVisitExpr(v, e) ==
    CASE e.t = "Call" ->
            IF e.callee.t = "Super" THEN FinderSeeSuper(v)
            ELSE FinderVisitArgs(FinderVisitExpr(v, e.callee), e.args)
      [] e.t = "Member" ->
            LET v1 == IF e.obj.t = "Super" THEN v ELSE FinderVisitExpr(v, e.obj)
                v2 == FinderVisitExpr(v1, e.prop)
            IN  IF IsSuperCall(e.obj) THEN [v2 EXCEPT !.mode = "Assign"] ELSE v2
      [] e.t = "Assign" ->
            LET v1 == IF e.left.t = "LExpr" THEN FinderVisitExpr(v, e.left.expr) ELSE v
                v2 == FinderVisitExpr([v1 EXCEPT !.in_complex = TRUE], e.right)
            IN  [v2 EXCEPT !.in_complex = v1.in_complex]
      [] e.t = "Arrow" ->
            LET v1 == FinderVisitExpr([v EXCEPT !.in_complex = TRUE], e.body)
            IN  [v1 EXCEPT !.in_complex = v.in_complex]
      [] OTHER -> v

FinderVisitArgs(v, args) ==
    IF args = <<>> THEN v
    ELSE FinderVisitArgs(FinderVisitExpr(v, Head(args).expr), Tail(args))

\* the Visit impls over statements with function declarations entered
FinderVisitStmtEnterFn(v, s) ==
    CASE s.t = "SExpr" -> FinderVisitExpr(v, s.expr)
      [] s.t = "SReturn" -> IF s.arg = Nil THEN v ELSE FinderVisitExpr(v, s.arg)
      [] s.t = "SIf" ->
            LET c  == [v EXCEPT !.in_complex = TRUE]
                v1 == FinderVisitStmt(FinderVisitExpr(c, s.test), s.cons)
                v2 == IF s.alt = Nil THEN v1 ELSE FinderVisitStmt(v1, s.alt)
            IN  [v2 EXCEPT !.in_complex = v.in_complex]
      [] s.t = "SFnDecl" -> FinderVisitStmts(v, s.body)
      [] OTHER -> v

FinderVisitStmt(v, s) ==
    CASE s.t = "SExpr" -> FinderVisitExpr(v, s.expr)
      [] s.t = "SReturn" -> IF s.arg = Nil THEN v ELSE FinderVisitExpr(v, s.arg)
      [] s.t = "SIf" ->
            LET c  == [v EXCEPT !.in_complex = TRUE]
                v1 == FinderVisitStmt(FinderVisitExpr(c, s.test), s.cons)
                v2 == IF s.alt = Nil THEN v1 ELSE FinderVisitStmt(v1, s.alt)
            IN  [v2 EXCEPT !.in_complex = v.in_complex]
      [] OTHER -> v

FinderVisitStmts(v, ss) ==
    IF ss = <<>> THEN v ELSE FinderVisitStmts(FinderVisitStmt(v, Head(ss)), Tail(ss))

\* SuperCallFinder::find
SuperCallFinderFind(node) ==
    IF node # <<>> /\ node[Len(node)].t = "SExpr" /\ IsSuperCall(node[Len(node)].expr)
    THEN "None"
    ELSE FinderVisitStmts([mode |-> "None", in_complex |-> FALSE], node).mode

\* quote_ident!(DUMMY_SP.apply_mark(mark), "_this")
ThisIdent(mark) == MarkedIdent("_this", mark)

\* super::get_prototype_of
GetPrototypeOf(cls) == Call(Helper("getPrototypeOf"), <<Arg(cls)>>)

\* ReturningMode::Returning / ReturningMode::Prototype
Returning(mark, arg) == [t |-> "Returning", mark |-> mark, arg |-> arg]
Prototype(is_default, class_name, args) ==
    [t |-> "Prototype", is_constructor_default |-> is_default,
     class_name |-> class_name, args |-> args]
\* Option<Vec<ExprOrSpread>>
SomeArgs(args) == [t |-> "Some", v |-> args]

\* make_possible_return_value that passes a lone spread argument on to call
MakePossibleReturnValueNoUnwrap(m) ==
    Call(Helper("possibleConstructorReturn"),
         IF m.t = "Returning"
         THEN <<Arg(ThisIdent(m.mark))>> \o (IF m.arg = Nil THEN <<>> ELSE <<Arg(m.arg)>>)
         ELSE LET useArguments == m.is_constructor_default \/ m.args = Nil
                  fn_name == IF useArguments THEN "apply" ELSE "call"
                  args == IF useArguments THEN <<Arg(This), Arg(Ident("arguments"))>>
                          ELSE <<Arg(This)>> \o m.args.v
              IN  <<Arg(This),
                    Arg(Call(Member(GetPrototypeOf(m.class_name), Ident(fn_name), FALSE),
                             args))>>)

\* make_possible_return_value
MakePossibleReturnValue(m) ==
    Call(Helper("possibleConstructorReturn"),
         IF m.t = "Returning"
         THEN <<Arg(ThisIdent(m.mark))>> \o (IF m.arg = Nil THEN <<>> ELSE <<Arg(m.arg)>>)
         ELSE LET useArguments == m.is_constructor_default \/ m.args = Nil
                  one == ~useArguments /\ Len(m.args.v) = 1 /\ m.args.v[1].spread
                  fn_name == IF useArguments \/ one THEN "apply" ELSE "call"
                  args == IF useArguments THEN <<Arg(This), Arg(Ident("arguments"))>>
                          ELSE IF one THEN <<Arg(This), Arg(m.args.v[1].expr)>>
                          ELSE <<Arg(This)>> \o m.args.v
              IN  <<Arg(This),
                    Arg(Call(Member(GetPrototypeOf(m.class_name), Ident(fn_name), FALSE),
                             args))>>)

RECURSIVE CtorFoldExpr(_, _)
RECURSIVE CtorFoldStmt(_, _)

CtorFoldArgs(f, args) ==
    [i \in 1..Len(args) |-> [args[i] EXCEPT !.expr = CtorFoldExpr(f, args[i].expr)]]

CtorFoldStmts(f, ss) == [i \in 1..Len(ss) |-> CtorFoldStmt(f, ss[i])]

\* ignore_return! without the assignment of the flag
IgnoreReturnUnset(f) == f

\* ignore_return!: the flag is set while the children are folded, and the
\* folder the caller goes on with has the old flag
IgnoreReturn(f) == [f EXCEPT !.ignore_return = TRUE]

\* the super() rewrite of Fold<Expr>
CtorSuperAssign(f, args) ==
    Assign(PIdent(ThisIdent(f.mark)),
           MakePossibleReturnValue(
               Prototype(f.is_constructor_default, f.class_name, SomeArgs(args))))

\* Fold<Expr> for ConstructorFolder
CtorFoldExpr(f, expr) ==
    IF f.mode # "Assign" THEN expr
    ELSE LET e == CASE expr.t = "Call" ->
                        Call(IF expr.callee.t \in {"Super", "Helper"} THEN expr.callee
                             ELSE CtorFoldExpr(f, expr.callee),
                             CtorFoldArgs(f, expr.args))
                    [] expr.t = "Member" ->
                        Member(IF expr.obj.t = "Super" THEN expr.obj
                               ELSE CtorFoldExpr(f, expr.obj),
                               CtorFoldExpr(f, expr.prop), expr.computed)
                    [] expr.t = "Assign" ->
                        Assign(IF expr.left.t = "LExpr"
                               THEN LExpr(CtorFoldExpr(f, expr.left.expr))
                               ELSE expr.left,
                               CtorFoldExpr(f, expr.right))
                    [] expr.t = "Arrow" -> Arrow(CtorFoldExpr(IgnoreReturn(f), expr.body))
                    [] expr.t = "Fn" -> FnExpr(CtorFoldStmts(IgnoreReturn(f), expr.body))
                    [] expr.t = "Class" -> ClassExpr(CtorFoldStmts(IgnoreReturn(f), expr.ctor))
                    [] OTHER -> expr
         IN  IF e.t = "This" THEN MarkedIdent("_this", f.mark)
             ELSE IF IsSuperCall(e) THEN CtorSuperAssign(f, e.args)
             ELSE e

\* Fold<ReturnStmt> for ConstructorFolder
CtorFoldReturn(f, stmt) ==
    IF f.ignore_return THEN stmt
    ELSE SReturn(MakePossibleReturnValue(
             Returning(f.mark, IF stmt.arg = Nil THEN Nil ELSE CtorFoldExpr(f, stmt.arg))))

\* Fold<Stmt>, the match on self.mode, with the Var arm emitting what the
\* Assign arm emits
CtorSuperStmtVarAsAssign(f, expr) ==
    CASE f.mode \in {"Assign", "Var"} -> SExpr(Assign(PIdent(ThisIdent(f.mark)), expr))
      [] OTHER -> SReturn(expr)

\* Fold<Stmt>, the match on self.mode: the statement that replaces super(..)
CtorSuperStmt(f, expr) ==
    CASE f.mode = "Assign" -> SExpr(Assign(PIdent(ThisIdent(f.mark)), expr))
      [] f.mode = "Var" -> SVar("var", <<Declarator(PIdent(ThisIdent(f.mark)), expr)>>)
      [] OTHER -> SReturn(expr)

\* Fold<Stmt> for ConstructorFolder
CtorFoldStmt(f, stmt) ==
    LET s == CASE stmt.t = "SExpr" -> SExpr(CtorFoldExpr(f, stmt.expr))
               [] stmt.t = "SReturn" -> CtorFoldReturn(f, stmt)
               [] stmt.t = "SIf" ->
                    SIf(CtorFoldExpr(f, stmt.test), CtorFoldStmt(f, stmt.cons),
                        IF stmt.alt = Nil THEN Nil ELSE CtorFoldStmt(f, stmt.alt))
               [] stmt.t = "SFnDecl" -> SFnDecl(CtorFoldStmts(IgnoreReturn(f), stmt.body))
               [] OTHER -> stmt
    IN  IF s.t = "SExpr" /\ IsSuperCall(s.expr)
        THEN CtorSuperStmt(f, MakePossibleReturnValue(
                                  Prototype(f.is_constructor_default, f.class_name,
                                            SomeArgs(s.expr.args))))
        ELSE s

\* struct ConstructorFolder
ConstructorFolder(mode, in) ==
    [class_name |-> Ident("C"), mode |-> mode, mark |-> in.mark,
     is_constructor_default |-> in.is_constructor_default, ignore_return |-> FALSE]

RECURSIVE ReplFoldExpr(_, _)
RECURSIVE ReplFoldExprChildren(_, _)
RECURSIVE ReplFoldStmt(_, _)

ReplFoldArgs(r, args) ==
    [i \in 1..Len(args) |-> [args[i] EXCEPT !.expr = ReplFoldExpr(r, args[i].expr)]]

ReplFoldStmts(r, ss) == [i \in 1..Len(ss) |-> ReplFoldStmt(r, ss[i])]

\* Fold<MemberExpr> for Replacer
ReplFoldMember(r, e) ==
    Member(IF r.mark # RootMark /\ e.obj.t # "Super"
           THEN ReplFoldExpr([r EXCEPT !.wrap_with_assertiion = FALSE], e.obj)
           ELSE e.obj,
           ReplFoldExprChildren(r, e.prop), e.computed)

\* expr.fold_children(self) for Replacer; Fold<Class> returns the class as it is
ReplFoldExprChildren(r, e) ==
    CASE e.t = "Call" ->
            Call(IF e.callee.t \in {"Super", "Helper"} THEN e.callee
                 ELSE ReplFoldExpr(r, e.callee),
                 ReplFoldArgs(r, e.args))
      [] e.t = "Member" -> ReplFoldMember(r, e)
      [] e.t = "Assign" ->
            Assign(IF e.left.t = "LExpr" THEN LExpr(ReplFoldExpr(r, e.left.expr)) ELSE e.left,
                   ReplFoldExpr(r, e.right))
      [] e.t = "Arrow" -> Arrow(ReplFoldExpr(r, e.body))
      [] e.t = "Fn" -> FnExpr(ReplFoldStmts(r, e.body))
      [] OTHER -> e

\* Fold<Expr> for Replacer
ReplFoldExpr(r, expr) ==
    IF expr.t = "This"
    THEN IF r.wrap_with_assertiion
         THEN Call(Helper("assertThisInitialized"), <<Arg(ThisIdent(r.mark))>>)
         ELSE ThisIdent(r.mark)
    ELSE ReplFoldExprChildren(r, expr)

ReplFoldStmt(r, s) ==
    CASE s.t = "SExpr" -> SExpr(ReplFoldExpr(r, s.expr))
      [] s.t = "SReturn" -> SReturn(IF s.arg = Nil THEN Nil ELSE ReplFoldExpr(r, s.arg))
      [] s.t = "SIf" ->
            SIf(ReplFoldExpr(r, s.test), ReplFoldStmt(r, s.cons),
                IF s.alt = Nil THEN Nil ELSE ReplFoldStmt(r, s.alt))
      [] s.t = "SFnDecl" -> SFnDecl(ReplFoldStmts(r, s.body))
      [] OTHER -> s

\* replace_this_in_constructor: (constructor, found); every `this` the
\* Replacer reaches is replaced, so found says whether the body changed
ReplaceThisInConstructor(mark, body) ==
    LET c == ReplFoldStmts([mark |-> mark, wrap_with_assertiion |-> TRUE], body)
    IN  [c |-> c, found |-> c # body]

(***************************************************************************)
(* The constructor bodies handed to the unit: every body of at most        *)
(* MaxCtorNodes expression nodes over the forms below.                     *)
(***************************************************************************)
CtorAtoms == {This, Ident("x"), Call(Super, <<>>)}

\* the expressions with e as their one sub-expression
CtorWrap(e) ==
    { Call(Ident("f"), <<Arg(e)>>),
      Call(Super, <<Arg(e)>>),
      Member(e, Ident("y"), FALSE),
      Assign(PIdent(Ident("z")), e),
      Arrow(e),
      FnExpr(<<SExpr(e)>>),
      FnExpr(<<SReturn(e)>>),
      ClassExpr(<<SExpr(e)>>) }

CtorExprs[n \in 0..MaxCtorNodes] ==
    IF n = 0 THEN {}
    ELSE IF n = 1 THEN CtorAtoms
    ELSE UNION {CtorWrap(e) : e \in CtorExprs[n - 1]}

\* the statements of n nodes
CtorStmts[n \in 0..MaxCtorNodes] ==
    IF n = 0 THEN {}
    ELSE {SExpr(e) : e \in CtorExprs[n]}
         \cup {SReturn(e) : e \in CtorExprs[n - 1]}
         \cup {SIf(Ident("c"), SExpr(e), Nil) : e \in CtorExprs[n - 1]}
         \cup {SIf(Ident("c"), SReturn(e), Nil) : e \in CtorExprs[n - 1]}
         \cup {SFnDecl(<<SReturn(e)>>) : e \in CtorExprs[n - 1]}
         \cup (IF n = 1 THEN {SReturn(Nil)} ELSE {})

\* the statement lists of exactly n nodes
CtorBodiesOf[n \in 0..MaxCtorNodes] ==
    IF n = 0 THEN {<<>>}
    ELSE UNION {{<<s>> \o b : s \in CtorStmts[k], b \in CtorBodiesOf[n - k]} : k \in 1..n}

CtorBodies == UNION {CtorBodiesOf[n] : n \in 0..MaxCtorNodes}

\* the constructor injected for a derived class without one: super(...arguments)
DefaultCtorBody == <<SExpr(Call(Super, <<Spread(Ident("arguments"))>>))>>

\* the mark of `_this`
CtorMarks == {RootMark, 1}

CtorInputs ==
    {[body |-> b, mark |-> m, is_constructor_default |-> FALSE] :
        b \in CtorBodies, m \in CtorMarks}
    \cup {[body |-> DefaultCtorBody, mark |-> m, is_constructor_default |-> TRUE] :
        m \in CtorMarks}

\* the arguments of a super(..) call
SuperArgs == {Arg(Ident("x")), Arg(This), Spread(Ident("x")), Spread(Ident("arguments"))}

\* the ReturningMode values handed to make_possible_return_value
ReturningModes ==
    {Prototype(d, Ident("C"), a) :
        d \in BOOLEAN,
        a \in {Nil} \cup {SomeArgs(l) : l \in SeqsUpTo(SuperArgs, MaxSuperArgs)}}
    \cup {Returning(m, a) : m \in CtorMarks, a \in {Nil, Ident("x"), This}}

InitCtor ==
    /\ unit = "ctor"
    /\ pc = "start"
    /\ ctorIn \in CtorInputs \cup ReturningModes
    /\ ctorMode = Nil
    /\ ctorOut = Nil
    /\ SpanIdle
    /\ BomIdle
    /\ DIdle
    /\ RestIdle

\* SuperCallFinder::find on the body
CallFind ==
    /\ unit = "ctor" /\ pc = "start"
    /\ ctorIn \in CtorInputs
    /\ ctorMode' = SuperCallFinderFind(ctorIn.body)
    /\ pc' = "found"
    /\ UNCHANGED <<ctorIn, ctorOut, OutsideCtor>>

\* body.fold_with(&mut ConstructorFolder { mode, .. })
CallFold ==
    /\ unit = "ctor" /\ pc = "found"
    /\ ctorOut' = CtorFoldStmts(ConstructorFolder(ctorMode, ctorIn), ctorIn.body)
    /\ pc' = "folded"
    /\ UNCHANGED <<ctorIn, ctorMode, OutsideCtor>>

\* replace_this_in_constructor(mark, c)
CallReplaceThis ==
    /\ unit = "ctor" /\ pc = "start"
    /\ ctorIn \in CtorInputs
    /\ ctorOut' = ReplaceThisInConstructor(ctorIn.mark, ctorIn.body)
    /\ pc' = "replaced"
    /\ UNCHANGED <<ctorIn, ctorMode, OutsideCtor>>

\* make_possible_return_value(mode)
CallMakeReturn ==
    /\ unit = "ctor" /\ pc = "start"
    /\ ctorIn \in ReturningModes
    /\ ctorOut' = MakePossibleReturnValue(ctorIn)
    /\ pc' = "made"
    /\ UNCHANGED <<ctorIn, ctorMode, OutsideCtor>>

NextCtor == CallFind \/ CallFold \/ CallReplaceThis \/ CallMakeReturn

SpecCtor == InitCtor /\ [][NextCtor]_vars

(***************************************************************************)
(* Claims about the constructor unit.                                      *)
(***************************************************************************)
RECURSIVE SuperCallsInExpr(_)
RECURSIVE SuperCallsInArgs(_)
RECURSIVE SuperCallsInStmt(_)
RECURSIVE SuperCallsInStmts(_)

\* the number of super(..) calls of an expression that belong to this
\* constructor: nested functions and classes are not entered, arrows are
SuperCallsInExpr(e) ==
    CASE e.t = "Call" ->
            (IF e.callee.t = "Super" THEN 1
             ELSE IF e.callee.t = "Helper" THEN 0
             ELSE SuperCallsInExpr(e.callee))
            + SuperCallsInArgs(e.args)
      [] e.t = "Member" ->
            (IF e.obj.t = "Super" THEN 0 ELSE SuperCallsInExpr(e.obj))
            + SuperCallsInExpr(e.prop)
      [] e.t = "Assign" ->
            (IF e.left.t = "LExpr" THEN SuperCallsInExpr(e.left.expr) ELSE 0)
            + SuperCallsInExpr(e.right)
      [] e.t = "Arrow" -> SuperCallsInExpr(e.body)
      [] OTHER -> 0

SuperCallsInArgs(args) ==
    IF args = <<>> THEN 0
    ELSE SuperCallsInExpr(Head(args).expr) + SuperCallsInArgs(Tail(args))

SuperCallsInStmt(s) ==
    CASE s.t = "SExpr" -> SuperCallsInExpr(s.expr)
      [] s.t = "SReturn" -> IF s.arg = Nil THEN 0 ELSE SuperCallsInExpr(s.arg)
      [] s.t = "SIf" ->
            SuperCallsInExpr(s.test) + SuperCallsInStmt(s.cons)
            + (IF s.alt = Nil THEN 0 ELSE SuperCallsInStmt(s.alt))
      [] s.t = "SVar" ->
            IF s.decls[1].init = Nil THEN 0 ELSE SuperCallsInExpr(s.decls[1].init)
      [] OTHER -> 0

SuperCallsInStmts(ss) ==
    IF Len(ss) = 0 THEN 0 ELSE SuperCallsInStmt(Head(ss)) + SuperCallsInStmts(Tail(ss))

\* the last top-level statement is a super(..) call
EndsWithSuper(body) ==
    Len(body) > 0 /\ body[Len(body)].t = "SExpr" /\ IsSuperCall(body[Len(body)].expr)

\* C1: the body ConstructorFolder produces, under the mode find chose, holds
\* no call whose callee is super (nested functions and classes, which hold
\* no super() of this constructor, are not looked into).
C1_NoSuperCallRemains ==
    (unit = "ctor" /\ pc = "folded") => SuperCallsInStmts(ctorOut) = 0

\* C7: find returns None exactly when the body has no super() call of its
\* own, or its only super() call is the last top-level statement.
C7_NoneIffNoSuperOrOnlyTail ==
    (unit = "ctor" /\ pc = "found") =>
        (ctorMode = "None" <=>
            \/ SuperCallsInStmts(ctorIn.body) = 0
            \/ SuperCallsInStmts(ctorIn.body) = 1 /\ EndsWithSuper(ctorIn.body))

RECURSIVE ClaimedReplExpr(_, _, _)
RECURSIVE ClaimedReplStmt(_, _)

ClaimedReplArgs(mark, args) ==
    [i \in 1..Len(args) |->
        [args[i] EXCEPT !.expr = ClaimedReplExpr(mark, args[i].expr, FALSE)]]

\* what C8 says of an expression: every `this` becomes
\* assertThisInitialized(_this), and the bare _this only where the `this` is
\* itself the object of a member expression (isObj)
ClaimedReplExpr(mark, e, isObj) ==
    CASE e.t = "This" ->
            IF isObj THEN ThisIdent(mark)
            ELSE Call(Helper("assertThisInitialized"), <<Arg(ThisIdent(mark))>>)
      [] e.t = "Call" ->
            Call(IF e.callee.t \in {"Super", "Helper"} THEN e.callee
                 ELSE ClaimedReplExpr(mark, e.callee, FALSE),
                 ClaimedReplArgs(mark, e.args))
      [] e.t = "Member" ->
            Member(IF e.obj.t = "Super" THEN e.obj ELSE ClaimedReplExpr(mark, e.obj, TRUE),
                   e.prop, e.computed)
      [] e.t = "Assign" ->
            Assign(IF e.left.t = "LExpr"
                   THEN LExpr(ClaimedReplExpr(mark, e.left.expr, FALSE))
                   ELSE e.left,
                   ClaimedReplExpr(mark, e.right, FALSE))
      [] e.t = "Arrow" -> Arrow(ClaimedReplExpr(mark, e.body, FALSE))
      [] e.t = "Fn" ->
            FnExpr([i \in 1..Len(e.body) |-> ClaimedReplStmt(mark, e.body[i])])
      [] OTHER -> e

ClaimedReplStmt(mark, s) ==
    CASE s.t = "SExpr" -> SExpr(ClaimedReplExpr(mark, s.expr, FALSE))
      [] s.t = "SReturn" ->
            SReturn(IF s.arg = Nil THEN Nil ELSE ClaimedReplExpr(mark, s.arg, FALSE))
      [] s.t = "SIf" ->
            SIf(ClaimedReplExpr(mark, s.test, FALSE), ClaimedReplStmt(mark, s.cons),
                IF s.alt = Nil THEN Nil ELSE ClaimedReplStmt(mark, s.alt))
      [] OTHER -> s

\* C8: with a fresh mark for `_this`, replace_this_in_constructor wraps every
\* `this` outside nested classes as assertThisInitialized(_this), except a
\* `this` that is itself the object of a member expression.
C8_ThisWrappedUnlessMemberObject ==
    (unit = "ctor" /\ pc = "replaced" /\ ctorIn.mark # RootMark) =>
        ctorOut.c = [i \in 1..Len(ctorIn.body) |-> ClaimedReplStmt(ctorIn.mark, ctorIn.body[i])]

\* possibleConstructorReturn(this, getPrototypeOf(C).call/apply(..))
IsPrototypeReturn(e) ==
    /\ e.t = "Call" /\ e.callee = Helper("possibleConstructorReturn")
    /\ Len(e.args) = 2
    /\ e.args[1] = Arg(This)
    /\ ~e.args[2].spread
    /\ e.args[2].expr.t = "Call"
    /\ e.args[2].expr.callee.t = "Member"
    /\ e.args[2].expr.callee.obj = GetPrototypeOf(Ident("C"))
    /\ e.args[2].expr.callee.prop \in {Ident("call"), Ident("apply")}

\* a statement of the constructor and the statement that replaced it: a
\* statement-level super(..) call, also in the branch of an if, has the
\* form of the mode
RECURSIVE SuperStmtRewritten(_, _, _, _)
SuperStmtRewritten(mode, mark, si, so) ==
    CASE si.t = "SExpr" /\ IsSuperCall(si.expr) ->
            CASE mode = "Assign" ->
                    /\ so.t = "SExpr" /\ so.expr.t = "Assign"
                    /\ so.expr.left = PIdent(MarkedIdent("_this", mark))
                    /\ IsPrototypeReturn(so.expr.right)
              [] mode = "Var" ->
                    /\ so.t = "SVar" /\ so.kind = "var" /\ Len(so.decls) = 1
                    /\ so.decls[1].name = PIdent(MarkedIdent("_this", mark))
                    /\ IsPrototypeReturn(so.decls[1].init)
              [] OTHER ->
                    /\ so.t = "SReturn"
                    /\ IsPrototypeReturn(so.arg)
      [] si.t = "SIf" ->
            /\ so.t = "SIf"
            /\ SuperStmtRewritten(mode, mark, si.cons, so.cons)
            /\ si.alt # Nil => SuperStmtRewritten(mode, mark, si.alt, so.alt)
      [] OTHER -> TRUE

\* C13: every statement-level super(args) of the constructor becomes, in
\* Assign mode, the expression statement `_this = possibleConstructorReturn(
\* this, <prototype call>)`, in Var mode `var _this = ...` with the same
\* value, in None mode `return possibleConstructorReturn(this, ...)`
\* without a `_this`; `_this` carries the folder's mark.
C13_SuperStmtByMode ==
    (unit = "ctor" /\ pc = "folded") =>
        /\ Len(ctorOut) = Len(ctorIn.body)
        /\ \A i \in 1..Len(ctorIn.body) :
              SuperStmtRewritten(ctorMode, ctorIn.mark, ctorIn.body[i], ctorOut[i])

\* `super(x); this;` folded in Var mode with mark 1: `var _this = ...` first
C13_Witness ==
    /\ unit = "ctor" /\ pc = "folded" /\ ctorMode = "Var" /\ ctorIn.mark = 1
    /\ ctorIn.body = <<SExpr(Call(Super, <<Arg(Ident("x"))>>)), SExpr(This)>>
    /\ ctorOut[1].t = "SVar"
    /\ ctorOut[1].decls[1].name = PIdent(MarkedIdent("_this", 1))

\* C14: in Prototype mode the call on getPrototypeOf(ClassName) is
\* .apply(this, arguments) when the constructor is synthesized or no
\* argument list is given, .apply(this, e) when the one argument is the
\* spread ...e, and .call(this, a1, .., an) with the arguments as they are
\* in every other case.
C14_PrototypeCallShape ==
    (unit = "ctor" /\ pc = "made" /\ ctorIn.t = "Prototype") =>
        LET viaArguments == ctorIn.is_constructor_default \/ ctorIn.args = Nil
            oneSpread == /\ ~viaArguments
                         /\ Len(ctorIn.args.v) = 1
                         /\ ctorIn.args.v[1].spread
            method == IF viaArguments \/ oneSpread THEN "apply" ELSE "call"
            passed == IF viaArguments THEN <<Arg(Ident("arguments"))>>
                      ELSE IF oneSpread THEN <<Arg(ctorIn.args.v[1].expr)>>
                      ELSE ctorIn.args.v
        IN  ctorOut =
                Call(Helper("possibleConstructorReturn"),
                     <<Arg(This),
                       Arg(Call(Member(GetPrototypeOf(ctorIn.class_name),
                                       Ident(method), FALSE),
                                <<Arg(This)>> \o passed))>>)

\* super(...x) of a written constructor: apply(this, x)
C14_Witness ==
    /\ unit = "ctor" /\ pc = "made"
    /\ ctorIn = Prototype(FALSE, Ident("C"), SomeArgs(<<Spread(Ident("x"))>>))
    /\ ctorOut.args[2].expr.callee.prop = Ident("apply")
    /\ ctorOut.args[2].expr.args = <<Arg(This), Arg(Ident("x"))>>

RECURSIVE ReturnsInExpr(_, _, _)
RECURSIVE ReturnsInStmt(_, _, _, _)

\* the statements of a list pairwise
ReturnsInStmts(f, ssi, sso, nested) ==
    /\ Len(sso) = Len(ssi)
    /\ \A i \in 1..Len(ssi) : ReturnsInStmt(f, ssi[i], sso[i], nested)

\* an expression of the constructor and the expression that replaced it:
\* the returns of the functions and classes in it (the arguments of a
\* super(..) call, which is rewritten as a whole, are left out)
ReturnsInExpr(f, ei, eo) ==
    CASE ei.t = "Fn" -> eo.t = "Fn" /\ ReturnsInStmts(f, ei.body, eo.body, TRUE)
      [] ei.t = "Class" -> eo.t = "Class" /\ ReturnsInStmts(f, ei.ctor, eo.ctor, TRUE)
      [] ei.t = "Arrow" -> eo.t = "Arrow" /\ ReturnsInExpr(f, ei.body, eo.body)
      [] ei.t = "Call" /\ ei.callee.t # "Super" ->
            /\ eo.t = "Call" /\ Len(eo.args) = Len(ei.args)
            /\ ReturnsInExpr(f, ei.callee, eo.callee)
            /\ \A i \in 1..Len(ei.args) : ReturnsInExpr(f, ei.args[i].expr, eo.args[i].expr)
      [] ei.t = "Member" /\ ei.obj.t # "Super" ->
            /\ eo.t = "Member"
            /\ ReturnsInExpr(f, ei.obj, eo.obj)
            /\ ReturnsInExpr(f, ei.prop, eo.prop)
      [] ei.t = "Assign" ->
            eo.t = "Assign" /\ ReturnsInExpr(f, ei.right, eo.right)
      [] OTHER -> TRUE

\* a statement and the statement that replaced it: a return outside every
\* nested scope is `return possibleConstructorReturn(_this, X)`, a return
\* inside one is as it was
ReturnsInStmt(f, si, so, nested) ==
    CASE si.t = "SReturn" ->
            IF nested THEN so = si
            ELSE /\ so.t = "SReturn"
                 /\ so.arg.t = "Call"
                 /\ so.arg.callee = Helper("possibleConstructorReturn")
                 /\ so.arg.args =
                       <<Arg(MarkedIdent("_this", f.mark))>>
                       \o (IF si.arg = Nil THEN <<>>
                           ELSE <<Arg(CtorFoldExpr(f, si.arg))>>)
                 /\ si.arg # Nil => ReturnsInExpr(f, si.arg, so.arg.args[2].expr)
      [] si.t = "SExpr" ->
            IsSuperCall(si.expr) \/ (so.t = "SExpr" /\ ReturnsInExpr(f, si.expr, so.expr))
      [] si.t = "SIf" ->
            /\ so.t = "SIf"
            /\ ReturnsInStmt(f, si.cons, so.cons, nested)
            /\ si.alt # Nil => ReturnsInStmt(f, si.alt, so.alt, nested)
      [] si.t = "SFnDecl" ->
            so.t = "SFnDecl" /\ ReturnsInStmts(f, si.body, so.body, TRUE)
      [] OTHER -> TRUE

\* C15: every `return X` of the constructor body outside nested functions,
\* arrows and classes becomes `return possibleConstructorReturn(_this, X)`
\* (`_this` alone when there is no X), X being folded like any expression
\* of the body; every return inside a nested scope stays as it is; a return
\* that follows a nested scope is rewritten again.
C15_ReturnsWrappedOutsideNested ==
    (unit = "ctor" /\ pc = "folded") =>
        ReturnsInStmts(ConstructorFolder(ctorMode, ctorIn), ctorIn.body, ctorOut, FALSE)

\* `function g() { return x; } return;` folded: the first return kept, the
\* second wrapped
C15_Witness ==
    /\ unit = "ctor" /\ pc = "folded" /\ ctorIn.mark = 1
    /\ ctorIn.body = <<SFnDecl(<<SReturn(Ident("x"))>>), SReturn(Nil)>>
    /\ ctorOut = <<SFnDecl(<<SReturn(Ident("x"))>>),
                   SReturn(Call(Helper("possibleConstructorReturn"),
                                <<Arg(MarkedIdent("_this", 1))>>))>>

RECURSIVE VisitedSupersOfExpr(_, _)
RECURSIVE VisitedSupersOfArgs(_, _)
RECURSIVE VisitedSupersOfStmt(_, _)

\* the super(..) calls of an expression that the finder visits, in the
\* order of the visit: of each whether it stands in a complex context and
\* whether it is the object of a member expression.  The arguments of a
\* super(..) call, functions and classes are not visited.
VisitedSupersOfExpr(e, complex) ==
    CASE e.t = "Call" ->
            IF e.callee.t = "Super" THEN <<[complex |-> complex, member |-> FALSE]>>
            ELSE VisitedSupersOfExpr(e.callee, complex)
                 \o VisitedSupersOfArgs(e.args, complex)
      [] e.t = "Member" ->
            (IF IsSuperCall(e.obj) THEN <<[complex |-> complex, member |-> TRUE]>>
             ELSE IF e.obj.t = "Super" THEN <<>>
             ELSE VisitedSupersOfExpr(e.obj, complex))
            \o VisitedSupersOfExpr(e.prop, complex)
      [] e.t = "Assign" ->
            (IF e.left.t = "LExpr" THEN VisitedSupersOfExpr(e.left.expr, complex)
             ELSE <<>>)
            \o VisitedSupersOfExpr(e.right, TRUE)
      [] e.t = "Arrow" -> VisitedSupersOfExpr(e.body, TRUE)
      [] OTHER -> <<>>

VisitedSupersOfArgs(args, complex) ==
    IF args = <<>> THEN <<>>
    ELSE VisitedSupersOfExpr(Head(args).expr, complex)
         \o VisitedSupersOfArgs(Tail(args), complex)

VisitedSupersOfStmt(s, complex) ==
    CASE s.t = "SExpr" -> VisitedSupersOfExpr(s.expr, complex)
      [] s.t = "SReturn" ->
            IF s.arg = Nil THEN <<>> ELSE VisitedSupersOfExpr(s.arg, complex)
      [] s.t = "SIf" ->
            VisitedSupersOfExpr(s.test, TRUE) \o VisitedSupersOfStmt(s.cons, TRUE)
            \o (IF s.alt = Nil THEN <<>> ELSE VisitedSupersOfStmt(s.alt, TRUE))
      [] OTHER -> <<>>

RECURSIVE VisitedSupers(_)
VisitedSupers(body) ==
    IF body = <<>> THEN <<>>
    ELSE VisitedSupersOfStmt(Head(body), FALSE) \o VisitedSupers(Tail(body))

\* None, then Var, then Assign
ModeRank(mode) == CASE mode = "None" -> 0 [] mode = "Var" -> 1 [] mode = "Assign" -> 2

\* the mode the finder has after the first k statements of the body
ModeAfter(body, k) ==
    FinderVisitStmts([mode |-> "None", in_complex |-> FALSE], SubSeq(body, 1, k)).mode

\* C22: for a body whose last statement is not a super() call, the mode is
\* Var exactly when one super() call is visited and it stands outside every
\* complex context and is not the object of a member expression; it is
\* Assign exactly when two or more are visited, or one stands in a complex
\* context or is the object of a member expression.  The mode never moves
\* back during the visit, and a super() after a complex construct has
\* ended counts as non-complex.
C22_ModeByVisitedSupers ==
    (unit = "ctor" /\ pc = "found" /\ ~EndsWithSuper(ctorIn.body)) =>
        LET s == VisitedSupers(ctorIn.body)
        IN  /\ ctorMode = "Var" <=>
                  (Len(s) = 1 /\ ~s[1].complex /\ ~s[1].member)
            /\ ctorMode = "Assign" <=>
                  \/ Len(s) >= 2
                  \/ \E i \in 1..Len(s) : s[i].complex \/ s[i].member
            /\ \A k \in 1..Len(ctorIn.body) :
                  ModeRank(ModeAfter(ctorIn.body, k - 1))
                      <= ModeRank(ModeAfter(ctorIn.body, k))
            /\ \A m \in {"None", "Var", "Assign"}, c \in BOOLEAN :
                  LET v == [mode |-> m, in_complex |-> c]
                  IN  /\ ModeRank(FinderSeeSuper(v).mode) >= ModeRank(m)
                      /\ FinderSeeSuper(v).in_complex = c

\* `if (c) x; super(); x;` was visited: the super() after the if statement
\* is not complex, and the mode is Var
C22_Witness ==
    /\ unit = "ctor" /\ pc = "found"
    /\ ctorIn.body = <<SIf(Ident("c"), SExpr(Ident("x")), Nil),
                       SExpr(Call(Super, <<>>)), SExpr(Ident("x"))>>
    /\ ctorMode = "Var"

RECURSIVE StripNestedExpr(_)
RECURSIVE StripNestedStmt(_)

\* the expression with the contents of every nested function and class
\* taken out
StripNestedExpr(e) ==
    CASE e.t = "Fn" -> FnExpr(<<>>)
      [] e.t = "Class" -> ClassExpr(<<>>)
      [] e.t = "Call" ->
            Call(IF e.callee.t = "Super" THEN e.callee ELSE StripNestedExpr(e.callee),
                 [i \in 1..Len(e.args) |->
                     [e.args[i] EXCEPT !.expr = StripNestedExpr(e.args[i].expr)]])
      [] e.t = "Member" ->
            Member(IF e.obj.t = "Super" THEN e.obj ELSE StripNestedExpr(e.obj),
                   StripNestedExpr(e.prop), e.computed)
      [] e.t = "Assign" ->
            Assign(IF e.left.t = "LExpr" THEN LExpr(StripNestedExpr(e.left.expr))
                   ELSE e.left,
                   StripNestedExpr(e.right))
      [] e.t = "Arrow" -> Arrow(StripNestedExpr(e.body))
      [] OTHER -> e

StripNestedStmt(s) ==
    CASE s.t = "SExpr" -> SExpr(StripNestedExpr(s.expr))
      [] s.t = "SReturn" -> IF s.arg = Nil THEN s ELSE SReturn(StripNestedExpr(s.arg))
      [] s.t = "SIf" ->
            SIf(StripNestedExpr(s.test), StripNestedStmt(s.cons),
                IF s.alt = Nil THEN Nil ELSE StripNestedStmt(s.alt))
      [] s.t = "SFnDecl" -> SFnDecl(<<>>)
      [] OTHER -> s

StripNested(body) == [i \in 1..Len(body) |-> StripNestedStmt(body[i])]

\* a super(..) call stands inside a nested function or class of the body
SuperInNested(body) ==
    SuperCallsInStmts(body) = 0 /\ StripNested(body) # body
    /\ \E i \in 1..Len(body) :
          \/ body[i].t = "SFnDecl" /\ SuperCallsInStmts(body[i].body) > 0
          \/ body[i].t = "SExpr" /\ body[i].expr.t = "Fn"
             /\ SuperCallsInStmts(body[i].expr.body) > 0
          \/ body[i].t = "SExpr" /\ body[i].expr.t = "Class"
             /\ SuperCallsInStmts(body[i].expr.ctor) > 0

\* C23: the super() calls inside a nested function or class do not count:
\* the mode of a body is the mode of the body with the contents of every
\* nested function and class taken out; arrows are entered.
C23_NestedSupersIgnored ==
    (unit = "ctor" /\ pc = "found") =>
        ctorMode = SuperCallFinderFind(StripNested(ctorIn.body))

\* `(class { constructor() { super(); } }); x;` was visited: the mode is None
C23_Witness ==
    /\ unit = "ctor" /\ pc = "found"
    /\ ctorIn.body = <<SExpr(ClassExpr(<<SExpr(Call(Super, <<>>))>>)), SExpr(Ident("x"))>>
    /\ SuperInNested(ctorIn.body)
    /\ ctorMode = "None"

(***************************************************************************)
(* Unit "destr": AssignFolder of the destructuring pass.                   *)
(* More syntax: literals, array literals (an element is an ExprOrSpread or *)
(* Nil for a hole), patterns (an array pattern element is a Pat or Nil).   *)
(***************************************************************************)
Num(n) == [t |-> "Num", value |-> n]
Str(v) == [t |-> "Str", value |-> v]
Null == [t |-> "Null"]
Array(elems) == [t |-> "Array", elems |-> elems]
New(callee, args) == [t |-> "New", callee |-> callee, args |-> args]
SeqExpr(exprs) == [t |-> "Seq", exprs |-> exprs]
Cond(test, cons, alt) == [t |-> "Cond", test |-> test, cons |-> cons, alt |-> alt]
Bin(op, left, right) == [t |-> "Bin", op |-> op, left |-> left, right |-> right]
Unary(op, arg) == [t |-> "Unary", op |-> op, arg |-> arg]
Paren(e) == [t |-> "Paren", expr |-> e]
PArray(elems) == [t |-> "PArray", elems |-> elems]
PRest(arg) == [t |-> "PRest", arg |-> arg]
PObject(props) == [t |-> "PObject", props |-> props]
PAssign(left, right) == [t |-> "PAssign", left |-> left, right |-> right]
PExpr(e) == [t |-> "PExpr", expr |-> e]
\* ObjectPatProp::KeyValue { key: PropName, value: Pat }
KeyValue(key, value) == [t |-> "KeyValue", key |-> key, value |-> value]
\* ObjectPatProp::Assign { key: Ident, value: Option<Expr> }
AssignProp(key, value) == [t |-> "AssignProp", key |-> key, value |-> value]
\* PropName::Ident / PropName::Computed
KIdent(sym) == [t |-> "KIdent", sym |-> sym]
KComputed(e) == [t |-> "KComputed", expr |-> e]
\* Option::Some
Some(v) == [t |-> "Some", v |-> v]

\* std::usize::MAX, the element count that stands for "has a rest element";
\* it is only compared with element counts
UsizeMax == 2147483647

\* util::is_literal: literals and array literals made of literals
RECURSIVE IsLiteral(_)
IsLiteral(e) ==
    CASE e.t \in {"Num", "Str", "Null"} -> TRUE
      [] e.t = "Array" ->
            \A i \in 1..Len(e.elems) : e.elems[i] = Nil \/ IsLiteral(e.elems[i].expr)
      [] e.t = "Paren" -> IsLiteral(e.expr)
      [] OTHER -> FALSE

\* util::has_rest_pat
HasRestPat(elems) == \E i \in 1..Len(elems) : elems[i].t = "PRest"

\* util::prop_name_to_expr
PropNameToExpr(key) ==
    CASE key.t = "KIdent" -> Ident(key.sym)
      [] key.t = "KComputed" -> key.expr
      [] OTHER -> key

\* util::undefined: void 0
Undefined == Unary("void", Num(0))

\* private_ident!(name): an identifier with a fresh mark
PrivateIdent(a, sym) ==
    [ident |-> MarkedIdent(sym, a.next), a |-> [a EXCEPT !.next = a.next + 1]]

\* util::alias_ident_for: a fresh identifier for an expression
AliasIdentFor(a, expr, sym) == PrivateIdent(a, sym)

\* util::alias_if_required: an identifier is its own alias
AliasIfRequired(a, expr, sym) ==
    IF expr.t = "Ident" THEN [ident |-> expr, aliased |-> FALSE, a |-> a]
    ELSE LET p == AliasIdentFor(a, expr, sym)
         IN  [ident |-> p.ident, aliased |-> TRUE, a |-> p.a]

\* the folder aborts (panic!, unreachable!, unimplemented!, a failed assert
\* or unwrap); the first reason is kept
Panic(a, why) == IF a.panic = "" THEN [a EXCEPT !.panic = why] ELSE a

\* make_ref_idx_expr: ref[i]
MakeRefIdxExpr(ref_ident, i) == Member(ref_ident, Num(i), TRUE)

\* make_ref_prop_expr
MakeRefPropExpr(ref_ident, prop, computed) ==
    Member(ref_ident, prop, computed \/ prop.t \in {"Num", "Str"})

\* make_cond_expr: tmp === void 0 ? def_value : tmp
MakeCondExpr(tmp, def_value) ==
    Cond(Bin("===", tmp, Unary("void", Num(0))), def_value, tmp)

\* make_ref_ident_for_array without the arm that returns an identifier
\* initializer as it is
MakeRefIdentForArrayAlwaysAlias(a, init, elem_cnt) ==
    LET p == PrivateIdent(a, "_ref")
    IN  [ident |-> p.ident, pushed |-> <<Declarator(PIdent(p.ident), init)>>, a |-> p.a]

\* make_ref_ident_for_array: the identifier to read from, and the declarator
\* pushed for it (none when init is itself the identifier)
MakeRefIdentForArray(a, init, elem_cnt) ==
    IF init # Nil /\ init.t = "Ident" /\ elem_cnt = Nil
    THEN [ident |-> init, pushed |-> <<>>, a |-> a]
    ELSE LET al == IF init = Nil
                   THEN LET p == PrivateIdent(a, "_ref")
                        IN  [ident |-> p.ident, aliased |-> TRUE, a |-> p.a]
                   ELSE IF a.c.loose THEN AliasIfRequired(a, init, "_ref")
                   ELSE LET p == AliasIdentFor(a, init, "_ref")
                        IN  [ident |-> p.ident, aliased |-> TRUE, a |-> p.a]
             v == IF init = Nil THEN Nil
                  ELSE IF a.c.loose \/ init.t = "Array" THEN init
                  ELSE IF elem_cnt = Nil THEN init
                  ELSE IF elem_cnt.v = UsizeMax
                       THEN Call(Helper("toArray"), <<Arg(init)>>)
                  ELSE Call(Helper("slicedToArray"), <<Arg(init), Arg(Num(elem_cnt.v))>>)
         IN  [ident |-> al.ident,
              pushed |-> IF al.aliased THEN <<Declarator(PIdent(al.ident), v)>> ELSE <<>>,
              a |-> al.a]

\* make_ref_ident
MakeRefIdent(a, init) == MakeRefIdentForArray(a, init, Nil)

\* an expression of a kind whose fields can_be_null does not read
Kind(t) == [t |-> t]

\* TsNonNull, TsAs, TsTypeAssertion, TsTypeCast, TsConstAssertion and
\* TsOptChain: a kind and the expression it holds
TsExpr(t, e) == [t |-> t, expr |-> e]

\* the variants of Lit other than Null
LitKinds == {"Num", "Str", "Bool", "Regex", "JSXText"}

\* the variants of Expr that can_be_null declares unreachable
UnreachableKinds ==
    {"JSXMebmer", "JSXNamespacedName", "JSXEmpty", "JSXElement", "JSXFragment",
     "Invalid"}

\* the casts whose arm of can_be_null goes on to the operand
TsCastKinds == {"TsAs", "TsTypeAssertion", "TsTypeCast", "TsConstAssertion"}

\* can_be_null reaches unreachable!(); the right operand of || is only
\* evaluated when the left one is false
RECURSIVE CanBeNullPanics(_)
\* can_be_null with every cast arm answering false
RECURSIVE CanBeNullTrustCasts(_)
CanBeNullTrustCasts(e) ==
    CASE e.t \in {"Null", "This", "Ident", "Helper", "PrivateName", "Member", "Call",
                  "New", "Yield", "Await", "MetaProp"} -> TRUE
      [] e.t \in LitKinds -> FALSE
      [] e.t \in {"Array", "Arrow", "Object", "Fn", "Class", "Tpl"} -> FALSE
      [] e.t = "TaggedTpl" -> TRUE
      [] e.t = "Paren" -> CanBeNullTrustCasts(e.expr)
      [] e.t = "Seq" ->
            IF e.exprs = <<>> THEN TRUE ELSE CanBeNullTrustCasts(e.exprs[Len(e.exprs)])
      [] e.t = "Assign" -> CanBeNullTrustCasts(e.right)
      [] e.t = "Cond" -> CanBeNullTrustCasts(e.cons) \/ CanBeNullTrustCasts(e.alt)
      [] e.t \in {"Unary", "Update", "Bin"} -> TRUE
      [] e.t = "TsNonNull" -> FALSE
      [] e.t \in TsCastKinds -> FALSE
      [] e.t = "TsOptChain" -> CanBeNullTrustCasts(e.expr)
      [] OTHER -> FALSE

\* can_be_null; where it panics (CanBeNullPanics) there is no result and
\* FALSE stands in for it
RECURSIVE CanBeNull(_)
CanBeNull(e) ==
    CASE e.t \in {"Null", "This", "Ident", "Helper", "PrivateName", "Member", "Call",
                  "New", "Yield", "Await", "MetaProp"} -> TRUE
      [] e.t \in LitKinds -> FALSE
      [] e.t \in {"Array", "Arrow", "Object", "Fn", "Class", "Tpl"} -> FALSE
      [] e.t = "TaggedTpl" -> TRUE
      [] e.t = "Paren" -> CanBeNull(e.expr)
      [] e.t = "Seq" -> IF e.exprs = <<>> THEN TRUE ELSE CanBeNull(e.exprs[Len(e.exprs)])
      [] e.t = "Assign" -> CanBeNull(e.right)
      [] e.t = "Cond" -> CanBeNull(e.cons) \/ CanBeNull(e.alt)
      [] e.t \in {"Unary", "Update", "Bin"} -> TRUE
      [] e.t = "TsNonNull" -> FALSE
      [] e.t \in TsCastKinds -> CanBeNull(e.expr)
      [] e.t = "TsOptChain" -> CanBeNull(e.expr)
      [] OTHER -> FALSE

CanBeNullPanics(e) ==
    CASE e.t \in UnreachableKinds -> TRUE
      [] e.t \in {"Paren", "TsOptChain"} \cup TsCastKinds -> CanBeNullPanics(e.expr)
      [] e.t = "Seq" -> e.exprs # <<>> /\ CanBeNullPanics(e.exprs[Len(e.exprs)])
      [] e.t = "Assign" -> CanBeNullPanics(e.right)
      [] e.t = "Cond" ->
            \/ CanBeNullPanics(e.cons)
            \/ ~CanBeNull(e.cons) /\ CanBeNullPanics(e.alt)
      [] OTHER -> FALSE

(***************************************************************************)
(* AssignFolder.  A folder is the record                                   *)
(*   [c, exporting, vars, ignore_return_value, next, panic]                *)
(* where next numbers the marks private_ident! hands out and panic is ""   *)
(* until the folder aborts.  A fold returns [v, a]: the folded node and    *)
(* the folder after it.                                                    *)
(***************************************************************************)
R(v, a) == [v |-> v, a |-> a]

\* let v = ..; in ..
Let(v, In(_)) == In(v)

\* Destructuring::fold(Vec<T>): the folder made for one statement
NewAssignFolder(loose) ==
    [c |-> [loose |-> loose], exporting |-> FALSE, vars |-> <<>>,
     ignore_return_value |-> FALSE, next |-> 1, panic |-> ""]

\* decls.push on the folder's own vars
PushVars(a, ds) == [a EXCEPT !.vars = a.vars \o ds]

RECURSIVE FoldWith(_, _, _)
RECURSIVE AFoldExprs(_, _)
RECURSIVE AFoldPats(_, _)
RECURSIVE AFoldProps(_, _)
RECURSIVE AssignArrayLoop(_, _, _, _, _)
RECURSIVE FoldVarDecl(_, _, _)
RECURSIVE FoldVarDecls(_, _, _)
RECURSIVE VarArrayFastLoop(_, _, _, _, _)
RECURSIVE VarArrayLoop(_, _, _, _, _)
RECURSIVE VarObjectLoop(_, _, _, _)

\* fold_children over a list of optional expressions, left to right
AFoldExprs(a, es) ==
    IF es = <<>> THEN R(<<>>, a)
    ELSE Let(IF Head(es) = Nil THEN R(Nil, a) ELSE FoldWith("Expr", a, Head(es)),
             LAMBDA h :
         Let(AFoldExprs(h.a, Tail(es)), LAMBDA tl :
         R(<<h.v>> \o tl.v, tl.a)))

\* fold_children over Vec<Option<ExprOrSpread>>
AFoldArgs(a, args) ==
    Let(AFoldExprs(a, [i \in 1..Len(args) |->
                          IF args[i] = Nil THEN Nil ELSE args[i].expr]),
        LAMBDA r :
    R([i \in 1..Len(args) |->
          IF args[i] = Nil THEN Nil ELSE [args[i] EXCEPT !.expr = r.v[i]]], r.a))

\* fold_children over Vec<Option<Pat>>
AFoldPats(a, ps) ==
    IF ps = <<>> THEN R(<<>>, a)
    ELSE Let(IF Head(ps) = Nil THEN R(Nil, a) ELSE FoldWith("Pat", a, Head(ps)),
             LAMBDA h :
         Let(AFoldPats(h.a, Tail(ps)), LAMBDA tl :
         R(<<h.v>> \o tl.v, tl.a)))

\* fold_children of one ObjectPatProp
AFoldProp(a, p) ==
    IF p.t = "KeyValue"
    THEN Let(IF p.key.t = "KComputed"
             THEN Let(FoldWith("Expr", a, p.key.expr), LAMBDA e : R(KComputed(e.v), e.a))
             ELSE R(p.key, a),
             LAMBDA k :
         Let(FoldWith("Pat", k.a, p.value), LAMBDA v :
         R(KeyValue(k.v, v.v), v.a)))
    ELSE IF p.value = Nil THEN R(p, a)
    ELSE Let(FoldWith("Expr", a, p.value), LAMBDA e : R(AssignProp(p.key, e.v), e.a))

\* fold_children over Vec<ObjectPatProp>
AFoldProps(a, props) ==
    IF props = <<>> THEN R(<<>>, a)
    ELSE Let(AFoldProp(a, Head(props)), LAMBDA h :
         Let(AFoldProps(h.a, Tail(props)), LAMBDA tl :
         R(<<h.v>> \o tl.v, tl.a)))

\* the folder has no Fold<Pat>: a pattern is folded through to the
\* expressions it holds
AFoldPat(a, p) ==
    CASE p.t = "PArray" ->
            Let(AFoldPats(a, p.elems), LAMBDA r : R(PArray(r.v), r.a))
      [] p.t = "PRest" ->
            Let(FoldWith("Pat", a, p.arg), LAMBDA r : R(PRest(r.v), r.a))
      [] p.t = "PObject" ->
            Let(AFoldProps(a, p.props), LAMBDA r : R(PObject(r.v), r.a))
      [] p.t = "PAssign" ->
            Let(FoldWith("Pat", a, p.left), LAMBDA l :
            Let(FoldWith("Expr", l.a, p.right), LAMBDA r :
            R(PAssign(l.v, r.v), r.a)))
      [] p.t = "PExpr" ->
            Let(FoldWith("Expr", a, p.expr), LAMBDA r : R(PExpr(r.v), r.a))
      [] OTHER -> R(p, a)

\* fold_with on an ExprOrSuper
AFoldExprOrSuper(a, e) ==
    IF e.t = "Super" THEN R(e, a) ELSE FoldWith("Expr", a, e)

\* expr.fold_children(self)
AFoldExprChildren(a, e) ==
    CASE e.t = "Assign" ->
            Let(IF e.left.t = "LExpr"
                THEN Let(FoldWith("Expr", a, e.left.expr), LAMBDA x : R(LExpr(x.v), x.a))
                ELSE FoldWith("Pat", a, e.left),
                LAMBDA l :
            Let(FoldWith("Expr", l.a, e.right), LAMBDA r :
            R([e EXCEPT !.left = l.v, !.right = r.v], r.a)))
      [] e.t \in {"Call", "New"} ->
            Let(AFoldExprOrSuper(a, e.callee), LAMBDA c :
            Let(AFoldArgs(c.a, e.args), LAMBDA r :
            R([e EXCEPT !.callee = c.v, !.args = r.v], r.a)))
      [] e.t = "Member" ->
            Let(AFoldExprOrSuper(a, e.obj), LAMBDA o :
            Let(FoldWith("Expr", o.a, e.prop), LAMBDA r :
            R([e EXCEPT !.obj = o.v, !.prop = r.v], r.a)))
      [] e.t = "Paren" ->
            Let(FoldWith("Expr", a, e.expr), LAMBDA r : R(Paren(r.v), r.a))
      [] e.t = "Unary" ->
            Let(FoldWith("Expr", a, e.arg), LAMBDA r : R(Unary(e.op, r.v), r.a))
      [] e.t = "Seq" ->
            Let(AFoldExprs(a, e.exprs), LAMBDA r : R(SeqExpr(r.v), r.a))
      [] e.t = "Cond" ->
            Let(AFoldExprs(a, <<e.test, e.cons, e.alt>>), LAMBDA r :
            R(Cond(r.v[1], r.v[2], r.v[3]), r.a))
      [] e.t = "Bin" ->
            Let(AFoldExprs(a, <<e.left, e.right>>), LAMBDA r :
            R(Bin(e.op, r.v[1], r.v[2]), r.a))
      [] e.t = "Array" ->
            Let(AFoldArgs(a, e.elems), LAMBDA r : R(Array(r.v), r.a))
      [] OTHER -> R(e, a)

\* Iterator::next on the remaining literal elements: Nil when exhausted
IterNext(it) == IF it = <<>> THEN Nil ELSE Some(Head(it))

\* the assignment the literal path makes for a non-rest element: the next
\* literal element, or undefined if there is none or it is a hole
AssignNextElem(p, n) ==
    Assign(p, IF n = Nil \/ n.v = Nil THEN Undefined ELSE n.v.expr)

\* Fold<Expr>, array pattern, literal right-hand side: the for_each over
\* elems from element i on; arr_elems is Some(the literal elements left)
\* or Nil once a rest element took them
RECURSIVE AssignArrayFastLoop(_, _, _, _, _)
AssignArrayFastLoop(a, elems, i, arr_elems, exprs) ==
    IF i > Len(elems) \/ a.panic # "" THEN R(SeqExpr(exprs), a)
    ELSE IF elems[i] = Nil THEN AssignArrayFastLoop(a, elems, i + 1, arr_elems, exprs)
    ELSE IF elems[i].t = "PRest"
    THEN IF arr_elems = Nil
         THEN R(SeqExpr(exprs), Panic(a, "two rest element?"))
         ELSE AssignArrayFastLoop(a, elems, i + 1, Nil,
                  Append(exprs, Assign(elems[i].arg, Array(arr_elems.v))))
    ELSE IF arr_elems = Nil
         THEN R(SeqExpr(exprs), Panic(a, "pattern after rest element?"))
         ELSE AssignArrayFastLoop(a, elems, i + 1,
                  Some(IF arr_elems.v = <<>> THEN <<>> ELSE Tail(arr_elems.v)),
                  Append(exprs, AssignNextElem(elems[i], IterNext(arr_elems.v))))

\* Fold<Expr>, array pattern, general path: the loop over elems from
\* element i on (enumerate() counts from 0, so element i has index i - 1)
AssignArrayLoop(a, elems, i, ref_ident, exprs) ==
    IF i > Len(elems) \/ a.panic # "" THEN R(exprs, a)
    ELSE IF elems[i] = Nil THEN AssignArrayLoop(a, elems, i + 1, ref_ident, exprs)
    ELSE IF elems[i].t = "PAssign"
    THEN Let(MakeRefIdent(a, Nil), LAMBDA m :
         Let(FoldWith("Expr", PushVars(m.a, m.pushed),
                      Assign(elems[i].left, MakeCondExpr(m.ident, elems[i].right))),
             LAMBDA f :
         AssignArrayLoop(f.a, elems, i + 1, ref_ident,
             exprs \o <<Assign(PIdent(m.ident), Member(ref_ident, Num(i - 1), TRUE)),
                        f.v>>)))
    ELSE Let(FoldWith("Expr", a,
                 IF elems[i].t = "PRest"
                 THEN Assign(elems[i].arg,
                             Call(Member(ref_ident, Ident("slice"), FALSE),
                                  <<Arg(Num(i - 1))>>))
                 ELSE Assign(elems[i], MakeRefIdxExpr(ref_ident, i - 1))),
             LAMBDA f :
         AssignArrayLoop(f.a, elems, i + 1, ref_ident, Append(exprs, f.v)))

\* elem_cnt without the holes
ElemCntSkipHoles(elems) ==
    Some(IF HasRestPat(elems) THEN UsizeMax
         ELSE Cardinality({i \in 1..Len(elems) : elems[i] # Nil}))

\* std::usize::MAX when the pattern has a rest element, else its length
ElemCnt(elems) == Some(IF HasRestPat(elems) THEN UsizeMax ELSE Len(elems))

\* Fold<Expr>, Pat::Array on the left, general path
AssignArraySlow(a, elems, right) ==
    Let(MakeRefIdentForArray(a, Nil, ElemCnt(elems)), LAMBDA m :
    Let(AssignArrayLoop(PushVars(m.a, m.pushed), elems, 1, m.ident,
                        <<Assign(PIdent(m.ident), right)>>),
        LAMBDA l :
    R(SeqExpr(Append(l.v, m.ident)), l.a)))

\* Fold<Expr>, Pat::Array on the left, taking the literal path whatever
\* ignore_return_value is
AssignArrayAnywhere(a, elems, right, ignore_return_value) ==
    IF /\ IsLiteral(right)
       /\ right.t = "Array"
       /\ (Len(elems) = Len(right.elems) \/ HasRestPat(elems))
    THEN AssignArrayFastLoop(a, elems, 1, Some(right.elems), <<>>)
    ELSE AssignArraySlow(a, elems, right)

\* Fold<Expr>, Pat::Array on the left
AssignArray(a, elems, right, ignore_return_value) ==
    IF /\ IsLiteral(right) /\ ignore_return_value
       /\ right.t = "Array"
       /\ (Len(elems) = Len(right.elems) \/ HasRestPat(elems))
    THEN AssignArrayFastLoop(a, elems, 1, Some(right.elems), <<>>)
    ELSE AssignArraySlow(a, elems, right)

\* Fold<Expr>, Pat::Object on the left: the loop over props
RECURSIVE AssignObjectLoop(_, _, _, _)
AssignObjectLoop(a, props, ref_ident, exprs) ==
    IF props = <<>> THEN R(exprs, a)
    ELSE IF Head(props).t = "KeyValue"
    THEN AssignObjectLoop(a, Tail(props), ref_ident,
             Append(exprs, Assign(Head(props).value,
                 MakeRefPropExpr(ref_ident, PropNameToExpr(Head(props).key),
                                 Head(props).key.t = "KComputed"))))
    ELSE IF Head(props).value # Nil
    THEN Let(MakeRefIdent(a, Nil), LAMBDA m :
         AssignObjectLoop(PushVars(m.a, m.pushed), Tail(props), ref_ident,
             exprs \o <<Assign(PIdent(m.ident),
                               MakeRefPropExpr(ref_ident, Head(props).key, FALSE)),
                        Assign(PIdent(Head(props).key),
                               MakeCondExpr(m.ident, Head(props).value))>>))
    ELSE AssignObjectLoop(a, Tail(props), ref_ident,
             Append(exprs, Assign(PIdent(Head(props).key),
                                  MakeRefPropExpr(ref_ident, Head(props).key, FALSE))))

\* Fold<Expr>, Pat::Object on the left
AssignObject(a, props, right) ==
    Let(MakeRefIdent(a, Nil), LAMBDA m :
    Let(AssignObjectLoop(PushVars(m.a, m.pushed), props, m.ident,
                         <<Assign(PIdent(m.ident), right)>>),
        LAMBDA l :
    R(SeqExpr(Append(l.v, m.ident)), l.a)))

\* Fold<Expr>, the match on the folded expression
AFoldAssign(a, expr, ignore_return_value) ==
    IF a.panic # "" \/ expr.t # "Assign" \/ expr.op # "=" THEN R(expr, a)
    ELSE CASE expr.left.t = "PExpr" ->
                 R(Assign(LExpr(expr.left.expr), expr.right), a)
           [] expr.left.t = "PArray" ->
                 AssignArray(a, expr.left.elems, expr.right, ignore_return_value)
           [] expr.left.t = "PObject" ->
                 AssignObject(a, expr.left.props, expr.right)
           [] expr.left.t = "PAssign" ->
                 R(expr, Panic(a, "unimplemented: assignment pattern"))
           [] expr.left.t = "PRest" ->
                 R(expr, Panic(a, "unimplemented: rest pattern"))
           [] OTHER -> R(expr, a)

\* Fold<Expr> for AssignFolder with the hint read but not taken
AFoldExprKeepHint(a, expr) ==
    IF a.panic # "" THEN R(expr, a)
    ELSE Let(AFoldExprChildren(a, expr), LAMBDA ch :
         AFoldAssign([ch.a EXCEPT !.ignore_return_value = FALSE], ch.v,
                     a.ignore_return_value))

\* Fold<Expr> for AssignFolder (function and object expressions, which go
\* to a Destructuring folder of their own, are not among the inputs)
AFoldExpr(a, expr) ==
    IF a.panic # "" THEN R(expr, a)
    ELSE Let(AFoldExprChildren([a EXCEPT !.ignore_return_value = FALSE], expr),
             LAMBDA ch :
         AFoldAssign(ch.a, ch.v, a.ignore_return_value))

\* decls.extend / decls.push, or self.vars when the declarator is exported:
\* where make_ref_ident_for_array pushes in the array branch
PushRef(a, decls, ds) ==
    IF a.exporting THEN R(decls, PushVars(a, ds)) ELSE R(decls \o ds, a)

\* fold_var_decl, array pattern, literal initializer: the for_each over
\* elems from element i on
VarArrayFastLoop(a, decls, elems, i, arr_elems) ==
    IF i > Len(elems) \/ a.panic # "" THEN R(decls, a)
    ELSE IF elems[i] = Nil THEN VarArrayFastLoop(a, decls, elems, i + 1, arr_elems)
    ELSE IF elems[i].t = "PRest"
    THEN IF arr_elems = Nil THEN R(decls, Panic(a, "two rest element?"))
         ELSE Let(FoldVarDecl(a, decls, Declarator(elems[i].arg, Array(arr_elems.v))),
                  LAMBDA f :
              VarArrayFastLoop(f.a, f.v, elems, i + 1, Nil))
    ELSE IF arr_elems = Nil
    THEN R(decls, Panic(a, "pattern after rest element?"))
    ELSE IF IterNext(arr_elems.v) = Nil THEN R(decls, Panic(a, "unwrap on None"))
    ELSE Let(FoldVarDecl(a, decls,
                 Declarator(elems[i], IF Head(arr_elems.v) = Nil THEN Nil
                                      ELSE Head(arr_elems.v).expr)),
             LAMBDA f :
         VarArrayFastLoop(f.a, f.v, elems, i + 1, Some(Tail(arr_elems.v))))

\* fold_var_decl, array pattern, general path: the loop over elems
VarArrayLoop(a, decls, elems, i, ref_ident) ==
    IF i > Len(elems) \/ a.panic # "" THEN R(decls, a)
    ELSE IF elems[i] = Nil THEN VarArrayLoop(a, decls, elems, i + 1, ref_ident)
    ELSE Let(FoldWith("Vec<VarDeclarator>", a,
                 <<IF elems[i].t = "PRest"
                   THEN Declarator(elems[i].arg,
                            Call(Member(ref_ident, Ident("slice"), FALSE),
                                 <<Arg(Num(i - 1))>>))
                   ELSE Declarator(elems[i], MakeRefIdxExpr(ref_ident, i - 1))>>),
             LAMBDA f :
         VarArrayLoop(f.a, decls \o f.v, elems, i + 1, ref_ident))

\* fold_var_decl, object pattern, a property with a default value
VarObjectDefault(a, prop, ref_ident) ==
    Let(MakeRefIdent(a, MakeRefPropExpr(ref_ident, prop.key, FALSE)), LAMBDA m :
    Let(FoldWith("Vec<VarDeclarator>", m.a,
            <<Declarator(PIdent(prop.key), MakeCondExpr(m.ident, prop.value))>>),
        LAMBDA f :
    R(m.pushed \o f.v, f.a)))

\* fold_var_decl, object pattern: the loop over props
VarObjectLoop(a, decls, props, ref_ident) ==
    IF props = <<>> \/ a.panic # "" THEN R(decls, a)
    ELSE Let(IF Head(props).t = "KeyValue"
             THEN FoldWith("Vec<VarDeclarator>", a,
                      <<Declarator(Head(props).value,
                            MakeRefPropExpr(ref_ident, PropNameToExpr(Head(props).key),
                                            Head(props).key.t = "KComputed"))>>)
             ELSE IF Head(props).value # Nil
             THEN VarObjectDefault(a, Head(props), ref_ident)
             ELSE FoldWith("Vec<VarDeclarator>", a,
                      <<Declarator(PIdent(Head(props).key),
                            MakeRefPropExpr(ref_ident, Head(props).key, FALSE))>>),
             LAMBDA f :
         VarObjectLoop(f.a, decls \o f.v, Tail(props), ref_ident))

\* throw(new TypeError("Cannot destructure undefined"))
ThrowCannotDestructure ==
    Call(Helper("throw"),
         <<Arg(New(Ident("TypeError"), <<Arg(Str("Cannot destructure undefined"))>>))>>)

\* fold_var_decl, Pat::Array
VarArray(a, decls, elems, init) ==
    IF /\ IsLiteral(init) /\ init.t = "Array"
       /\ (Len(elems) = Len(init.elems) \/ HasRestPat(elems))
    THEN VarArrayFastLoop(a, decls, elems, 1, Some(init.elems))
    ELSE Let(MakeRefIdentForArray(a, init, ElemCnt(elems)), LAMBDA m :
         Let(PushRef(m.a, decls, m.pushed), LAMBDA q :
         VarArrayLoop(q.a, q.v, elems, 1, m.ident)))

\* fold_var_decl, Pat::Object without properties
VarEmptyObject(a, decls, init) ==
    Let(AliasIfRequired(a, init, "_ref"), LAMBDA al :
    R(decls
      \o (IF al.aliased THEN <<Declarator(PIdent(al.ident), init)>> ELSE <<>>)
      \o <<Declarator(PIdent(al.ident),
               Cond(Bin("!==", al.ident, Null), al.ident, ThrowCannotDestructure))>>,
      al.a))

\* fold_var_decl, Pat::Object
VarObject(a, decls, props, init) ==
    IF CanBeNullPanics(init) THEN R(decls, Panic(a, "unreachable: destructuring jsx"))
    ELSE
    Let(MakeRefIdent(a, init), LAMBDA m1 :
    Let(IF CanBeNull(init) THEN MakeRefIdent(m1.a, m1.ident)
        ELSE [ident |-> m1.ident, pushed |-> <<>>, a |-> m1.a],
        LAMBDA m2 :
    VarObjectLoop(m2.a, decls \o m1.pushed \o m2.pushed, props, m2.ident)))

\* fold_var_decl, Pat::Assign
VarAssign(a, decls, name, init) ==
    IF init.t = "Ident" /\ init.mark # EmptyCtxt
    THEN Let(FoldWith("Vec<VarDeclarator>", a,
                 <<Declarator(name.left, MakeCondExpr(init, name.right))>>),
             LAMBDA f :
         R(decls \o f.v, f.a))
    ELSE Let(PrivateIdent(a, "_tmp"), LAMBDA p :
         Let(FoldWith("Vec<VarDeclarator>", p.a,
                 <<Declarator(name.left, MakeCondExpr(p.ident, name.right))>>),
             LAMBDA f :
         R(decls \o <<Declarator(PIdent(p.ident), init)>> \o f.v, f.a)))

\* AssignFolder::fold_var_decl: decls after the declarator is lowered
FoldVarDecl(a, decls, decl) ==
    IF a.panic # "" THEN R(decls, a)
    ELSE CASE decl.name.t = "PIdent" -> R(Append(decls, decl), a)
           [] decl.name.t = "PRest" ->
                 R(decls, Panic(a, "unreachable: rest pattern"))
           [] decl.name.t = "PArray" ->
                 IF decl.init = Nil
                 THEN R(decls, Panic(a, "destructuring pattern binding requires initializer"))
                 ELSE VarArray(a, decls, decl.name.elems, decl.init)
           [] decl.name.t = "PObject" /\ decl.name.props = <<>> ->
                 IF decl.init = Nil THEN R(decls, Panic(a, "unwrap on None"))
                 ELSE VarEmptyObject(a, decls, decl.init)
           [] decl.name.t = "PObject" ->
                 IF decl.init = Nil
                 THEN R(decls, Panic(a, "destructuring pattern binding requires initializer"))
                 ELSE VarObject(a, decls, decl.name.props, decl.init)
           [] decl.name.t = "PAssign" ->
                 IF decl.init = Nil
                 THEN R(decls, Panic(a, "desturcturing pattern binding requires initializer"))
                 ELSE VarAssign(a, decls, decl.name, decl.init)
           [] OTHER -> R(decls, Panic(a, "unimplemented: pattern"))

\* the loop of Fold<Vec<VarDeclarator>> over the declarators
FoldVarDecls(a, decls, declarators) ==
    IF declarators = <<>> THEN R(decls, a)
    ELSE Let(FoldVarDecl(a, decls, Head(declarators)), LAMBDA f :
         FoldVarDecls(f.a, f.v, Tail(declarators)))

\* declarators.fold_children(self): name, then init, of each declarator
RECURSIVE AFoldDeclaratorChildren(_, _)
AFoldDeclaratorChildren(a, declarators) ==
    IF declarators = <<>> THEN R(<<>>, a)
    ELSE Let(FoldWith("Pat", a, Head(declarators).name), LAMBDA n :
         Let(IF Head(declarators).init = Nil THEN R(Nil, n.a)
             ELSE FoldWith("Expr", n.a, Head(declarators).init),
             LAMBDA i :
         Let(AFoldDeclaratorChildren(i.a, Tail(declarators)), LAMBDA tl :
         R(<<Declarator(n.v, i.v)>> \o tl.v, tl.a))))

\* Fold<Vec<VarDeclarator>> for AssignFolder
AFoldDeclarators(a, declarators) ==
    Let(AFoldDeclaratorChildren(a, declarators), LAMBDA ch :
    IF (\A i \in 1..Len(ch.v) : ch.v[i].name.t = "PIdent") \/ ch.a.panic # ""
    THEN ch
    ELSE FoldVarDecls(ch.a, <<>>, ch.v))

\* node.fold_with(self): the Fold impl of the node's type
FoldWith(type, a, node) ==
    CASE type = "Expr" -> AFoldExpr(a, node)
      [] type = "Pat" -> AFoldPat(a, node)
      [] type = "Vec<VarDeclarator>" -> AFoldDeclarators(a, node)

\* ModuleItem: export of a declaration
ExportDecl(decl) == [t |-> "ExportDecl", decl |-> decl]

\* Fold<Stmt> and Fold<ExportDecl> for AssignFolder
RECURSIVE AFoldStmt(_, _)
AFoldStmt(a, s) ==
    CASE s.t = "SExpr" ->
            Let(FoldWith("Expr", [a EXCEPT !.ignore_return_value = TRUE], s.expr),
                LAMBDA r :
            R(SExpr(r.v),
              IF r.a.ignore_return_value
              THEN Panic(r.a, "assertion failed: ignore_return_value == None")
              ELSE r.a))
      [] s.t = "SVar" ->
            Let(FoldWith("Vec<VarDeclarator>", a, s.decls), LAMBDA r :
            R(SVar(s.kind, r.v), r.a))
      [] s.t = "ExportDecl" ->
            Let(AFoldStmt([a EXCEPT !.exporting = TRUE], s.decl), LAMBDA r :
            R(ExportDecl(r.v), [r.a EXCEPT !.exporting = a.exporting]))
      [] OTHER -> R(s, a)

\* Visit<Pat> for DestructuringVisitor, through the expressions of a node:
\* some pattern other than an identifier pattern occurs
RECURSIVE PatFoundExpr(_)
PatFoundExpr(e) ==
    CASE e.t = "Assign" ->
            \/ IF e.left.t = "LExpr" THEN PatFoundExpr(e.left.expr)
               ELSE e.left.t # "PIdent"
            \/ PatFoundExpr(e.right)
      [] e.t \in {"Call", "New"} ->
            \/ PatFoundExpr(e.callee)
            \/ \E i \in 1..Len(e.args) : PatFoundExpr(e.args[i].expr)
      [] e.t = "Member" -> PatFoundExpr(e.obj) \/ PatFoundExpr(e.prop)
      [] e.t = "Paren" -> PatFoundExpr(e.expr)
      [] e.t = "Unary" -> PatFoundExpr(e.arg)
      [] e.t = "Seq" -> \E i \in 1..Len(e.exprs) : PatFoundExpr(e.exprs[i])
      [] e.t = "Cond" ->
            PatFoundExpr(e.test) \/ PatFoundExpr(e.cons) \/ PatFoundExpr(e.alt)
      [] e.t = "Bin" -> PatFoundExpr(e.left) \/ PatFoundExpr(e.right)
      [] e.t = "Array" ->
            \E i \in 1..Len(e.elems) :
                e.elems[i] # Nil /\ PatFoundExpr(e.elems[i].expr)
      [] OTHER -> FALSE

\* has_destruturing
RECURSIVE HasDestructuring(_)
HasDestructuring(s) ==
    CASE s.t = "SExpr" -> PatFoundExpr(s.expr)
      [] s.t = "SVar" ->
            \E i \in 1..Len(s.decls) :
                \/ s.decls[i].name.t # "PIdent"
                \/ s.decls[i].init # Nil /\ PatFoundExpr(s.decls[i].init)
      [] s.t = "ExportDecl" -> HasDestructuring(s.decl)
      [] OTHER -> FALSE

\* Fold<Vec<T>> for Destructuring on a list of one statement without
\* nested statement lists: the statements that replace it, and the panic
\* message if the folder aborted
DestructuringFold(c, stmt) ==
    IF ~HasDestructuring(stmt) THEN [stmts |-> <<stmt>>, panic |-> ""]
    ELSE Let(AFoldStmt(NewAssignFolder(c.loose), stmt), LAMBDA f :
         IF f.a.panic # "" THEN [stmts |-> <<>>, panic |-> f.a.panic]
         ELSE [stmts |-> (IF f.a.vars # <<>> THEN <<SVar("var", f.a.vars)>>
                          ELSE <<>>) \o <<f.v>>,
               panic |-> ""])

(***************************************************************************)
(* The statements handed to the unit.  A pattern of n nodes: a hole, an    *)
(* identifier, a property and a default count one node each, a rest        *)
(* element (always last) one.                                              *)
(***************************************************************************)
DNames == {Ident("a"), Ident("b")}

\* the compositions of n nodes into a list over the items of Items[k], k nodes each
RECURSIVE ListsOf(_, _)
ListsOf(Items, n) ==
    IF n = 0 THEN {<<>>}
    ELSE UNION {{<<x>> \o l : x \in Items[k], l \in ListsOf(Items, n - k)} : k \in 1..n}

DPats[n \in 0..MaxPatNodes] ==
    IF n = 0 THEN {}
    ELSE LET \* the elements of an array pattern
             Elems == [k \in 1..(n - 1) |->
                         DPats[k]
                         \cup {PAssign(p, Num(3)) : p \in DPats[k - 1]}
                         \cup (IF k = 1 THEN {Nil} ELSE {})]
             \* the properties of an object pattern
             Props == [k \in 1..(n - 1) |->
                         {KeyValue(KIdent("k"), p) : p \in DPats[k]}
                         \cup {KeyValue(KIdent("k"), PAssign(p, Num(3))) : p \in DPats[k - 1]}
                         \cup (IF k = 1
                               THEN {AssignProp(x, v) : x \in DNames, v \in {Nil, Num(3)}}
                               ELSE {})]
         IN  (IF n = 1 THEN {PIdent(x) : x \in DNames} ELSE {})
             \cup {PArray(l) : l \in ListsOf(Elems, n - 1)}
             \cup (IF n >= 2
                   THEN {PArray(Append(l, PRest(PIdent(Ident("r"))))) :
                            l \in ListsOf(Elems, n - 2)}
                   ELSE {})
             \cup {PObject(l) : l \in ListsOf(Props, n - 1)}

DPatterns == UNION {DPats[n] : n \in 1..MaxPatNodes}

\* array literals: [1, .., n], with a hole, nested
DLits ==
    {Array([i \in 1..n |-> Arg(Num(i))]) : n \in 0..MaxLitLen}
    \cup {Array(<<Nil, Arg(Num(2))>>),
          Array(<<Arg(Array(<<Arg(Num(1))>>)), Arg(Num(2))>>)}

\* initializers and right-hand sides
DInits ==
    {Ident("o"), Call(Ident("f"), <<>>), Null, Member(Ident("o"), Ident("p"), FALSE)}
    \cup DLits

\* where the pattern stands in the statement
DContexts == {"let", "export", "assign", "paren", "init"}

\* the statement of an input
DStmt(in) ==
    CASE in.ctx = "let" -> SVar("let", <<Declarator(in.pat, in.init)>>)
      [] in.ctx = "export" -> ExportDecl(SVar("let", <<Declarator(in.pat, in.init)>>))
      [] in.ctx = "assign" -> SExpr(Assign(in.pat, in.init))
      [] in.ctx = "paren" -> SExpr(Paren(Assign(in.pat, in.init)))
      [] in.ctx = "init" ->
            SVar("let", <<Declarator(PIdent(Ident("z")), Assign(in.pat, in.init))>>)

DInputs ==
    {[c |-> [loose |-> l], ctx |-> x, pat |-> p, init |-> i] :
        l \in BOOLEAN, x \in DContexts, p \in DPatterns, i \in DInits}

(***************************************************************************)
(* Running the emitted declarators.  Values are known by their kind only;  *)
(* the initializer of the input evaluates to the value the run is given.   *)
(***************************************************************************)
Values == {"null", "undefined", "object"}

\* the values an initializer can have
ValuesOf(init) ==
    IF init.t \in {"Ident", "Call", "Member"} THEN Values
    ELSE IF init.t = "Null" THEN {"null"}
    ELSE {"object"}

\* the binding of an identifier: the last one made
RECURSIVE Lookup(_, _)
Lookup(env, id) ==
    IF env = <<>> THEN "undefined"
    ELSE IF env[Len(env)][1] = id THEN env[Len(env)][2]
    ELSE Lookup(SubSeq(env, 1, Len(env) - 1), id)

\* rt: the initializer and its value; st: [env, evals, threw], where evals
\* counts the evaluations of an initializer that is an identifier, a call or
\* a member expression
RECURSIVE EvalExpr(_, _, _)
EvalExpr(rt, st, e) ==
    IF st.threw THEN R("undefined", st)
    ELSE IF e = rt.init /\ e.t \in {"Call", "Member"}
    THEN R(rt.value, [st EXCEPT !.evals = st.evals + 1])
    ELSE CASE e.t = "Ident" ->
                 R(Lookup(st.env, e),
                   IF e = rt.init THEN [st EXCEPT !.evals = st.evals + 1] ELSE st)
           [] e.t = "Null" -> R("null", st)
           [] e.t = "Num" -> R("number", st)
           [] e.t = "Str" -> R("string", st)
           [] e.t = "Unary" -> R("undefined", EvalExpr(rt, st, e.arg).a)
           [] e.t = "Bin" ->
                 LET l == EvalExpr(rt, st, e.left)
                     r == EvalExpr(rt, l.a, e.right)
                 IN  R(IF e.op = "!==" THEN l.v # r.v ELSE l.v = r.v, r.a)
           [] e.t = "Cond" ->
                 LET c == EvalExpr(rt, st, e.test)
                 IN  EvalExpr(rt, c.a, IF c.v THEN e.cons ELSE e.alt)
           [] e.t = "Call" /\ e.callee = Helper("throw") ->
                 R("undefined", [st EXCEPT !.threw = TRUE])
           [] e.t = "Member" ->
                 LET o == EvalExpr(rt, st, e.obj)
                 IN  IF o.v \in {"null", "undefined"}
                     THEN R("undefined", [o.a EXCEPT !.threw = TRUE])
                     ELSE R("number", o.a)
           [] OTHER -> R("object", st)

RECURSIVE RunDecls(_, _, _)
RunDecls(rt, st, decls) ==
    IF decls = <<>> \/ st.threw THEN st
    ELSE LET d == Head(decls)
             r == IF d.init = Nil THEN R("undefined", st) ELSE EvalExpr(rt, st, d.init)
         IN  RunDecls(rt,
                      [r.a EXCEPT !.env = IF r.a.threw THEN r.a.env
                                          ELSE Append(r.a.env, <<d.name.id, r.v>>)],
                      Tail(decls))

\* the emitted `let` declaration run where the initializer has value v
RunLet(init, v, decl) ==
    RunDecls([init |-> init, value |-> v],
             [env |-> IF init.t = "Ident" THEN <<<<init, v>>>> ELSE <<>>,
              evals |-> 0, threw |-> FALSE],
             decl.decls)

InitD ==
    /\ unit = "destr"
    /\ pc = "start"
    /\ dIn \in DInputs
    /\ dOut = Nil
    /\ dRun = Nil
    /\ SpanIdle
    /\ BomIdle
    /\ CtorIdle
    /\ RestIdle

\* Destructuring folds the statement
CallDestructuring ==
    /\ unit = "destr" /\ pc = "start"
    /\ dOut' = DestructuringFold(dIn.c, DStmt(dIn))
    /\ pc' = "lowered"
    /\ UNCHANGED <<dIn, dRun, OutsideD>>

\* the emitted binding runs
RunEmitted ==
    /\ unit = "destr" /\ pc = "lowered"
    /\ dIn.ctx = "let" /\ dOut.panic = ""
    /\ \E v \in ValuesOf(dIn.init) :
          dRun' = [value |-> v] @@ RunLet(dIn.init, v, dOut.stmts[Len(dOut.stmts)])
    /\ pc' = "ran"
    /\ UNCHANGED <<dIn, dOut, OutsideD>>

NextD == CallDestructuring \/ RunEmitted

SpecD == InitD /\ [][NextD]_vars

(***************************************************************************)
(* Properties of the destructuring unit.                                   *)
(***************************************************************************)
Lowered == unit = "destr" /\ pc \in {"lowered", "ran"} /\ dOut.panic = ""

\* the statement that replaces the input statement (after the hoisted vars)
OutStmt == dOut.stmts[Len(dOut.stmts)]

\* the declarators of the rewritten `let`
OutDecls == IF OutStmt.t = "ExportDecl" THEN OutStmt.decl.decls ELSE OutStmt.decls

\* C2: after AssignFolder has folded a statement, the name of every
\* declarator and the left-hand side of every `=` in the output is an
\* identifier pattern or a plain expression, for every nesting of patterns.
C2_NoPatternRemains ==
    Lowered => \A i \in 1..Len(dOut.stmts) : ~HasDestructuring(dOut.stmts[i])

\* the input is a binding that takes the array-literal path, every element
\* of the pattern is a hole, an identifier or a rest of an identifier, and
\* the literal has an element at the position of every non-rest element
FlatFastBinding ==
    /\ dIn.ctx = "let" /\ dIn.pat.t = "PArray" /\ dIn.init.t = "Array"
    /\ LET elems == dIn.pat.elems
           lit == dIn.init.elems
       IN  /\ Len(elems) = Len(lit) \/ HasRestPat(elems)
           /\ \A i \in 1..Len(elems) :
                 \/ elems[i] = Nil /\ i <= Len(lit)
                 \/ elems[i].t = "PIdent" /\ i <= Len(lit)
                 \/ elems[i].t = "PRest" /\ elems[i].arg.t = "PIdent"

\* the declarators that bind each element to the literal element of its position
RECURSIVE PositionwiseDecls(_, _, _)
PositionwiseDecls(elems, lit, i) ==
    IF i > Len(elems) THEN <<>>
    ELSE (IF elems[i] = Nil THEN <<>>
          ELSE IF elems[i].t = "PRest"
          THEN <<Declarator(elems[i].arg, Array(SubSeq(lit, i, Len(lit))))>>
          ELSE <<Declarator(elems[i], IF lit[i] = Nil THEN Nil ELSE lit[i].expr)>>)
         \o PositionwiseDecls(elems, lit, i + 1)

\* C4: on the array-literal path of fold_var_decl no temporary is declared,
\* the non-rest element at position i is bound to the literal element at
\* position i (a hole binds nothing and skips the literal element of its
\* position), and a rest element at position i is bound to the array
\* literal of the literal's elements from position i on.
C4_FastPathBindsPositionwise ==
    (unit = "destr" /\ pc \in {"lowered", "ran"} /\ FlatFastBinding)
        => dOut = [stmts |-> <<SVar("let",
                                  PositionwiseDecls(dIn.pat.elems, dIn.init.elems, 1))>>,
                   panic |-> ""]

\* the input is a binding with a non-empty object pattern
ObjectBinding ==
    /\ unit = "destr" /\ pc \in {"lowered", "ran"}
    /\ dIn.ctx = "let" /\ dIn.pat.t = "PObject" /\ dIn.pat.props # <<>>

\* the first temporary a folder hands out
FirstRef == MarkedIdent("_ref", 1)

\* the expression the declarator of a property reads
PropRead(ref, prop) ==
    IF prop.t = "KeyValue" THEN Member(ref, Ident(prop.key.sym), FALSE)
    ELSE Member(ref, prop.key, FALSE)

\* expression x occurs in expression e
RECURSIVE OccursIn(_, _)
OccursIn(x, e) ==
    \/ e = x
    \/ CASE e.t \in {"Call", "New"} ->
               \/ OccursIn(x, e.callee)
               \/ \E i \in 1..Len(e.args) : OccursIn(x, e.args[i].expr)
         [] e.t = "Member" -> OccursIn(x, e.obj) \/ OccursIn(x, e.prop)
         [] e.t = "Cond" -> OccursIn(x, e.test) \/ OccursIn(x, e.cons) \/ OccursIn(x, e.alt)
         [] e.t = "Bin" -> OccursIn(x, e.left) \/ OccursIn(x, e.right)
         [] e.t \in {"Unary"} -> OccursIn(x, e.arg)
         [] e.t = "Paren" -> OccursIn(x, e.expr)
         [] e.t = "Assign" -> OccursIn(x, e.right)
         [] e.t = "Seq" -> \E i \in 1..Len(e.exprs) : OccursIn(x, e.exprs[i])
         [] e.t = "Array" ->
               \E i \in 1..Len(e.elems) : e.elems[i] # Nil /\ OccursIn(x, e.elems[i].expr)
         [] OTHER -> FALSE

\* every property of the pattern has a declarator that reads it from ref
PropsReadFrom(ref) ==
    \A k \in 1..Len(dIn.pat.props) :
        \E j \in 1..Len(OutDecls) :
            /\ OutDecls[j].init # Nil
            /\ OccursIn(PropRead(ref, dIn.pat.props[k]), OutDecls[j].init)

EmptyObjectRan ==
    /\ unit = "destr" /\ pc = "ran"
    /\ dIn.ctx = "let" /\ dIn.pat = PObject(<<>>)

\* C6: for a binding with the empty object pattern the emitted declarators
\* evaluate the initializer exactly once into a temporary `_ref` distinct
\* from any user variable, the guard fails (calls the throw helper) both
\* when the value is null and when it is undefined, and yields the value
\* unchanged otherwise.
C6_EmptyPatternGuard ==
    EmptyObjectRan =>
        /\ OutDecls[1] = Declarator(PIdent(FirstRef), dIn.init)
        /\ dIn.init.t \in {"Ident", "Call", "Member"} => dRun.evals = 1
        /\ dRun.threw <=> dRun.value \in {"null", "undefined"}
        /\ ~dRun.threw => Lookup(dRun.env, FirstRef) = dRun.value

\* the input is a destructuring assignment expression
AssignCase ==
    /\ unit = "destr" /\ pc \in {"lowered", "ran"}
    /\ dIn.ctx \in {"assign", "paren", "init"}
    /\ dIn.pat.t \in {"PArray", "PObject"}

\* what the assignment expression of the input became
OutExpr ==
    CASE dIn.ctx = "assign" -> OutStmt.expr
      [] dIn.ctx = "paren" -> OutStmt.expr.expr
      [] dIn.ctx = "init" -> OutStmt.decls[1].init

\* an array pattern is assigned an array literal of its length (or has a rest)
LiteralAssign ==
    /\ dIn.pat.t = "PArray" /\ dIn.init.t = "Array"
    /\ (Len(dIn.pat.elems) = Len(dIn.init.elems) \/ HasRestPat(dIn.pat.elems))

\* C10 as stated: every destructuring assignment becomes a sequence whose
\* first element assigns the right-hand side to a fresh temporary and whose
\* last element is that temporary; the last element is left out only on the
\* array-literal path, taken only by the outermost expression of an
\* expression statement.
C10_SeqStartsWithTemp ==
    AssignCase =>
        /\ dOut.panic = ""
        /\ OutExpr.t = "Seq" /\ OutExpr.exprs # <<>>
        /\ OutExpr.exprs[1] = Assign(PIdent(FirstRef), dIn.init)
        /\ \/ OutExpr.exprs[Len(OutExpr.exprs)] = FirstRef
           \/ LiteralAssign /\ dIn.ctx = "assign"

\* C10: every destructuring assignment becomes a sequence expression.  Off
\* the array-literal path its first element assigns the right-hand side to
\* a fresh temporary, declared by a hoisted `var`, and its last element is
\* that temporary.  The array-literal path is taken exactly when the
\* assignment is the outermost expression of an expression statement and
\* the right-hand side is an array literal of the pattern's length (or the
\* pattern has a rest element); it uses no temporary at all: the sequence
\* holds one assignment to each non-hole element and nothing else.
C10_SeqUnlessFastPath ==
    AssignCase =>
        /\ dOut.panic = ""
        /\ OutExpr.t = "Seq"
        /\ IF LiteralAssign /\ dIn.ctx = "assign"
           THEN /\ Len(dOut.stmts) = 1
                /\ Len(OutExpr.exprs) =
                      Cardinality({i \in 1..Len(dIn.pat.elems) : dIn.pat.elems[i] # Nil})
                /\ \A i \in 1..Len(OutExpr.exprs) :
                      /\ OutExpr.exprs[i].t = "Assign"
                      /\ \E k \in 1..Len(dIn.pat.elems) :
                            OutExpr.exprs[i].left \in
                                {dIn.pat.elems[k],
                                 IF dIn.pat.elems[k].t = "PRest"
                                 THEN dIn.pat.elems[k].arg ELSE dIn.pat.elems[k]}
           ELSE /\ Len(dOut.stmts) = 2
                /\ dOut.stmts[1].t = "SVar" /\ dOut.stmts[1].kind = "var"
                /\ dOut.stmts[1].decls[1] = Declarator(PIdent(FirstRef), Nil)
                /\ OutExpr.exprs[1] = Assign(PIdent(FirstRef), dIn.init)
                /\ OutExpr.exprs[Len(OutExpr.exprs)] = FirstRef

\* `([a, b] = [1, 2]);` was lowered: the literal is not taken apart
C10_Witness ==
    /\ AssignCase /\ dIn.ctx = "paren"
    /\ dIn.pat = PArray(<<PIdent(Ident("a")), PIdent(Ident("b"))>>)
    /\ dIn.init = Array(<<Arg(Num(1)), Arg(Num(2))>>)
    /\ OutExpr.exprs[Len(OutExpr.exprs)] = FirstRef

\* C28: the ignore_return_value hint is set on entry to an expression
\* statement and taken by the fold of the statement's outermost expression:
\* the assertion after the fold never fails, the hint is None after the
\* statement, and a nested expression or the initializer of a declaration
\* is folded without it (an array literal assigned there is not taken
\* apart, while one assigned by the statement's outermost expression is).
C28_HintTakenByOutermost ==
    (unit = "destr" /\ pc \in {"lowered", "ran"}) =>
        /\ dOut.panic # "assertion failed: ignore_return_value == None"
        /\ ~AFoldStmt(NewAssignFolder(dIn.c.loose), DStmt(dIn)).a.ignore_return_value
        /\ (AssignCase /\ LiteralAssign /\ dOut.panic = "") =>
              IF dIn.ctx = "assign"
              THEN Len(dOut.stmts) = 1
              ELSE /\ Len(dOut.stmts) = 2
                   /\ OutExpr.exprs[1] = Assign(PIdent(FirstRef), dIn.init)

\* `([a] = [1]);` was folded: the parenthesis took the hint and the
\* assignment inside it goes through a temporary
C28_Witness ==
    /\ AssignCase /\ dIn.ctx = "paren" /\ dOut.panic = ""
    /\ dIn.pat = PArray(<<PIdent(Ident("a"))>>)
    /\ dIn.init = Array(<<Arg(Num(1))>>)
    /\ Len(dOut.stmts) = 2
    /\ OutExpr.exprs[1] = Assign(PIdent(FirstRef), dIn.init)

\* C27: while a declaration inside an export declaration is folded, no
\* temporary (`_ref`, `_tmp`) becomes a declarator of the exported
\* declaration, for array, object and default patterns alike: the export
\* binds the user's names only; after the fold the exporting flag has the
\* value it had before.
C27_ExportBindsUserNamesOnly ==
    (Lowered /\ dIn.ctx = "export") =>
        /\ \A j \in 1..Len(OutDecls) :
              OutDecls[j].name.t = "PIdent" /\ OutDecls[j].name.id.mark = 0
        /\ ~AFoldStmt(NewAssignFolder(dIn.c.loose), DStmt(dIn)).a.exporting

\* the input is a `let` binding of an array pattern with a rest element to
\* a literal array: the array-literal path of fold_var_decl is taken
RestOfLiteralBinding ==
    /\ unit = "destr" /\ pc \in {"lowered", "ran"}
    /\ dIn.ctx = "let" /\ dIn.pat.t = "PArray" /\ HasRestPat(dIn.pat.elems)
    /\ dIn.init.t = "Array" /\ IsLiteral(dIn.init)

\* C26: the array-literal path of fold_var_decl does not abort for an array
\* pattern with a rest element and a literal array of any length, also one
\* with fewer elements than the pattern has before its rest element; the
\* elements without a literal element are bound to undefined.
C26_FastPathShortLiteral ==
    RestOfLiteralBinding =>
        /\ dOut.panic = ""
        /\ \A i \in 1..Len(dIn.pat.elems) :
              (dIn.pat.elems[i].t = "PIdent" /\ i > Len(dIn.init.elems)) =>
                  \E j \in 1..Len(OutDecls) :
                      /\ OutDecls[j].name = dIn.pat.elems[i]
                      /\ OutDecls[j].init \in {Nil, Undefined}

\* the input is a `let` binding of an array pattern in non-loose mode, the
\* array-literal path is not taken, and every element of the pattern is a
\* hole, an identifier or a rest of an identifier
FlatSlowBinding ==
    /\ unit = "destr" /\ pc \in {"lowered", "ran"}
    /\ ~dIn.c.loose /\ dIn.ctx = "let" /\ dIn.pat.t = "PArray"
    /\ ~(/\ IsLiteral(dIn.init) /\ dIn.init.t = "Array"
         /\ (Len(dIn.pat.elems) = Len(dIn.init.elems) \/ HasRestPat(dIn.pat.elems)))
    /\ \A i \in 1..Len(dIn.pat.elems) :
          \/ dIn.pat.elems[i] = Nil
          \/ dIn.pat.elems[i].t = "PIdent"
          \/ dIn.pat.elems[i].t = "PRest" /\ dIn.pat.elems[i].arg.t = "PIdent"

\* toArray(init) for a pattern with a rest element, slicedToArray(init, N)
\* for one without, N the number of elements with the holes
ToArrayOf(elems, init) ==
    IF HasRestPat(elems) THEN Call(Helper("toArray"), <<Arg(init)>>)
    ELSE Call(Helper("slicedToArray"), <<Arg(init), Arg(Num(Len(elems)))>>)

\* the declarators that bind the element at position i (counted from 0) to
\* ref[i] and a rest element at position i to ref.slice(i)
RECURSIVE IndexwiseDecls(_, _, _)
IndexwiseDecls(elems, ref, i) ==
    IF i > Len(elems) THEN <<>>
    ELSE (IF elems[i] = Nil THEN <<>>
          ELSE IF elems[i].t = "PRest"
          THEN <<Declarator(elems[i].arg,
                     Call(Member(ref, Ident("slice"), FALSE), <<Arg(Num(i - 1))>>))>>
          ELSE <<Declarator(elems[i], Member(ref, Num(i - 1), TRUE))>>)
         \o IndexwiseDecls(elems, ref, i + 1)

NullLeaves ==
    {Null, This, Ident("o"), Member(Ident("o"), Ident("p"), FALSE),
     Call(Ident("f"), <<>>), New(Ident("f"), <<>>),
     Num(1), Str("s"), Array(<<>>), Arrow(<<>>), FnExpr(<<>>), ClassExpr(<<>>),
     Unary("void", Num(0)), Bin("===", Ident("o"), Null), SeqExpr(<<>>)}
    \cup {Kind(k) : k \in {"PrivateName", "Yield", "Await", "MetaProp", "Bool", "Regex",
                           "JSXText", "Object", "Tpl", "TaggedTpl", "Update"}
                          \cup UnreachableKinds}

\* the expressions with one operand e
NullWrap(e) ==
    {Paren(e), SeqExpr(<<Ident("o"), e>>), Assign(PIdent(Ident("a")), e)}
    \cup {TsExpr(k, e) : k \in TsCastKinds \cup {"TsNonNull", "TsOptChain"}}

\* expressions of nesting depth at most d; conditionals sit on the leaves
NullExprs[d \in 0..MaxNullDepth] ==
    IF d = 0 THEN NullLeaves
    ELSE NullExprs[d - 1]
         \cup UNION {NullWrap(e) : e \in NullExprs[d - 1]}
         \cup {Cond(Ident("o"), c, a) : c \in NullLeaves, a \in NullLeaves}

InitNull ==
    /\ unit = "null"
    /\ pc = "start"
    /\ nullIn \in NullExprs[MaxNullDepth]
    /\ nullOut = Nil
    /\ FirstIdle /\ FnIdle /\ VecIdle /\ LineIdle /\ MelIdle

\* can_be_null(&e)
CallCanBeNull ==
    /\ unit = "null" /\ pc = "start"
    /\ nullOut' = IF CanBeNullPanics(nullIn) THEN [panic |-> TRUE, v |-> FALSE]
                  ELSE [panic |-> FALSE, v |-> CanBeNull(nullIn)]
    /\ pc' = "done"
    /\ UNCHANGED <<nullIn, OutsideNull>>

NextNull == CallCanBeNull

SpecNull == InitNull /\ [][NextNull]_vars

\* the kinds the table calls possibly null, and never null
TableTrueKinds ==
    {"Null", "This", "Ident", "PrivateName", "Member", "Call", "New", "Yield",
     "Await", "MetaProp", "TaggedTpl", "Unary", "Update", "Bin"}
TableFalseKinds ==
    {"Num", "Str", "Bool", "Regex", "JSXText", "Array", "Object", "Fn", "Class",
     "Arrow", "Tpl"}

\* the table of the claim, with every type-only cast answering false
\* whatever its operand; Nil where the table has no entry
RECURSIVE TableAsStated(_)
TableAsStated(e) ==
    CASE e.t \in TableTrueKinds -> Some(TRUE)
      [] e.t \in TableFalseKinds \cup TsCastKinds \cup {"TsNonNull"} -> Some(FALSE)
      [] e.t = "Paren" -> TableAsStated(e.expr)
      [] e.t = "Seq" -> IF e.exprs = <<>> THEN Nil
                        ELSE TableAsStated(e.exprs[Len(e.exprs)])
      [] e.t = "Assign" -> TableAsStated(e.right)
      [] e.t = "Cond" ->
            IF TableAsStated(e.cons) = Nil \/ TableAsStated(e.alt) = Nil THEN Nil
            ELSE Some(TableAsStated(e.cons).v \/ TableAsStated(e.alt).v)
      [] OTHER -> Nil

\* C11 as stated: can_be_null follows the table, a type-only cast (as,
\* type assertion, type cast, const assertion, non-null assertion) being
\* never null whatever its operand.
C11_NullTable ==
    (unit = "null" /\ pc = "done" /\ TableAsStated(nullIn) # Nil) =>
        ~nullOut.panic /\ nullOut.v = TableAsStated(nullIn).v

\* C11 amended: can_be_null is true for the kinds the table calls possibly
\* null, false for the kinds it calls never null and for a non-null
\* assertion whatever its operand; for parentheses, an as-expression, a
\* type assertion, a type cast and a const assertion it is the result on
\* the operand, for a non-empty sequence the result on the last element,
\* for an assignment the result on the right-hand side, for a conditional
\* the disjunction of the results on the two branches.
C11_NullTableCastsRecurse ==
    (unit = "null" /\ pc = "done" /\ ~nullOut.panic) =>
        /\ nullIn.t \in TableTrueKinds => nullOut.v
        /\ nullIn.t \in TableFalseKinds \cup {"TsNonNull"} => ~nullOut.v
        /\ nullIn.t \in {"Paren"} \cup TsCastKinds => nullOut.v = CanBeNull(nullIn.expr)
        /\ (nullIn.t = "Seq" /\ nullIn.exprs # <<>>) =>
              nullOut.v = CanBeNull(nullIn.exprs[Len(nullIn.exprs)])
        /\ nullIn.t = "Assign" => nullOut.v = CanBeNull(nullIn.right)
        /\ nullIn.t = "Cond" =>
              nullOut.v = (CanBeNull(nullIn.cons) \/ CanBeNull(nullIn.alt))

\* can_be_null was asked about `null as T` and answered true
C11_Witness ==
    /\ unit = "null" /\ pc = "done"
    /\ nullIn = TsExpr("TsAs", Null)
    /\ nullOut = [panic |-> FALSE, v |-> TRUE]

(***************************************************************************)
(* Unit "fn": Destructuring::fold_fn_like.                                 *)
(***************************************************************************)
\* Fold<Stmt> for Destructuring on a declaration without functions and
\* statement lists inside: fold_children builds the declaration again from
\* its folded declarators
DFoldStmt(s) ==
    IF s.t = "SVar"
    THEN SVar(s.kind, [i \in 1..Len(s.decls) |->
                          Declarator(s.decls[i].name, s.decls[i].init)])
    ELSE s

\* fold_fn_like: the loop over ps from parameter i on; m hands out the marks
RECURSIVE FnLikeLoop(_, _, _, _, _)
FnLikeLoop(m, ps, i, params, decls) ==
    IF i > Len(ps) THEN [params |-> params, decls |-> decls]
    ELSE IF ps[i].t = "PIdent"
    THEN FnLikeLoop(m, ps, i + 1, Append(params, ps[i]), decls)
    ELSE IF ps[i].t \in {"PArray", "PObject", "PAssign"}
    THEN Let(PrivateIdent(m, "_ref"), LAMBDA p :
         FnLikeLoop(p.a, ps, i + 1, Append(params, PIdent(p.ident)),
                    Append(decls, Declarator(ps[i], p.ident))))
    ELSE FnLikeLoop(m, ps, i + 1, params, decls)

\* fold_fn_like with the declaration put after the body
FoldFnLikeDeclLast(ps, body) ==
    Let(FnLikeLoop([next |-> 1], ps, 1, <<>>, <<>>), LAMBDA l :
    [params |-> l.params,
     stmts |-> IF l.decls = <<>> THEN body
               ELSE body \o <<DFoldStmt(SVar("let", l.decls))>>])

\* fold_fn_like
FoldFnLike(ps, body) ==
    Let(FnLikeLoop([next |-> 1], ps, 1, <<>>, <<>>), LAMBDA l :
    [params |-> l.params,
     stmts |-> IF l.decls = <<>> THEN body
               ELSE <<DFoldStmt(SVar("let", l.decls))>> \o body])

\* the parameters: identifiers, an array pattern, an object pattern, a
\* parameter with a default
FnParams ==
    {PIdent(Ident("a")), PIdent(Ident("b")),
     PArray(<<PIdent(Ident("a"))>>),
     PObject(<<AssignProp(Ident("b"), Nil)>>),
     PAssign(PIdent(Ident("a")), Num(3))}

\* the statements of a body
FnStmts ==
    {SExpr(Ident("a")), SVar("let", <<Declarator(PIdent(Ident("c")), Num(1))>>)}

\* parameter lists, with or without a rest parameter at the end
FnInputs ==
    {[ps |-> l \o r, body |-> b] :
        l \in SeqsUpTo(FnParams, MaxParams),
        r \in {<<>>, <<PRest(PIdent(Ident("r")))>>},
        b \in SeqsUpTo(FnStmts, MaxBodyLen)}

InitFn ==
    /\ unit = "fn"
    /\ pc = "start"
    /\ fnIn \in FnInputs
    /\ fnOut = Nil
    /\ FirstIdle
    /\ NullIdle /\ VecIdle /\ LineIdle /\ MelIdle

\* Destructuring folds a function: fold_fn_like on its parameters and body
CallFoldFnLike ==
    /\ unit = "fn" /\ pc = "start"
    /\ fnOut' = FoldFnLike(fnIn.ps, fnIn.body)
    /\ pc' = "folded"
    /\ UNCHANGED <<fnIn, OutsideFn>>

NextFn == CallFoldFnLike

SpecFn == InitFn /\ [][NextFn]_vars

\* the positions of the parameters fold_fn_like replaces
Replaced(ps) == {i \in 1..Len(ps) : ps[i].t \in {"PArray", "PObject", "PAssign"}}

\* the declarators that bind the replaced parameters from position i on to
\* the identifiers that took their places
RECURSIVE BindReplaced(_, _, _)
BindReplaced(ps, params, i) ==
    IF i > Len(ps) THEN <<>>
    ELSE (IF i \in Replaced(ps) THEN <<Declarator(ps[i], params[i].id)>> ELSE <<>>)
         \o BindReplaced(ps, params, i + 1)

\* C17: fold_fn_like puts, at the position of each array, object or default
\* parameter, a fresh identifier `_ref`, different for different
\* parameters; when a parameter was replaced the body starts with one `let`
\* declaration that binds each replaced pattern to its identifier in
\* parameter order and goes on with the original statements in their
\* order; a function with identifier parameters only gets its body back.
C17_FnLikeParams ==
    (unit = "fn" /\ pc = "folded") =>
        LET ps == fnIn.ps
            params == fnOut.params
        IN  /\ \A i \in 1..Len(ps) :
                  /\ ps[i].t = "PIdent" => (i <= Len(params) /\ params[i] = ps[i])
                  /\ i \in Replaced(ps) =>
                        /\ i <= Len(params)
                        /\ \E k \in 1..Len(ps) : params[i] = PIdent(MarkedIdent("_ref", k))
                        /\ \A j \in Replaced(ps) : j # i => params[j] # params[i]
            /\ IF Replaced(ps) = {}
               THEN fnOut.stmts = fnIn.body
               ELSE fnOut.stmts =
                       <<SVar("let", BindReplaced(ps, params, 1))>> \o fnIn.body

\* C25: fold_fn_like returns as many parameters as it was given, in the
\* same order: a parameter that is not an array, object or default pattern
\* (an identifier or a rest parameter) is kept as it was, and none is
\* dropped.
C25_FnLikeKeepsEveryParam ==
    (unit = "fn" /\ pc = "folded") =>
        /\ Len(fnOut.params) = Len(fnIn.ps)
        /\ \A i \in 1..Len(fnIn.ps) :
              i \notin Replaced(fnIn.ps) => fnOut.params[i] = fnIn.ps[i]

\* a function whose first parameter is an identifier and that has two
\* pattern parameters was folded: both were replaced, and the body of two
\* statements follows the declaration of two declarators
C17_Witness ==
    /\ unit = "fn" /\ pc = "folded"
    /\ Cardinality(Replaced(fnIn.ps)) = 2
    /\ fnIn.ps[1].t = "PIdent"
    /\ Len(fnIn.body) = 2
    /\ Len(fnOut.stmts) = 3
    /\ Len(fnOut.stmts[1].decls) = 2

(***************************************************************************)
(* Unit "vec": Fold<Vec<T>> for Destructuring on a statement list.         *)
(***************************************************************************)
\* has_destruturing that stops after the first statement
HasDestructuringInFirst(stmts) == stmts # <<>> /\ HasDestructuring(stmts[1])

\* has_destruturing(&stmts)
HasDestructuringIn(stmts) == \E i \in 1..Len(stmts) : HasDestructuring(stmts[i])

\* Fold<Vec<T>> for Destructuring, the loop over the statements from
\* statement i on: every statement gets a folder of its own, and the vars
\* of the folder are declared before the statement; next is the next mark
RECURSIVE FoldStmtsLoop(_, _, _, _, _)
FoldStmtsLoop(c, stmts, i, buf, next) ==
    IF i > Len(stmts) THEN [stmts |-> buf, panic |-> ""]
    ELSE Let(AFoldStmt([NewAssignFolder(c.loose) EXCEPT !.next = next], stmts[i]),
             LAMBDA f :
         IF f.a.panic # "" THEN [stmts |-> <<>>, panic |-> f.a.panic]
         ELSE FoldStmtsLoop(c, stmts, i + 1,
                  buf \o (IF f.a.vars # <<>> THEN <<SVar("var", f.a.vars)>> ELSE <<>>)
                      \o <<f.v>>,
                  f.a.next))

\* Fold<Vec<T>> for Destructuring with the declarations of the temporaries
\* moved to the front of the list
DestructuringFoldVecVarsFirst(c, stmts) ==
    IF ~HasDestructuringIn(stmts)
    THEN [found |-> FALSE, stmts |-> stmts, panic |-> ""]
    ELSE Let(FoldStmtsLoop(c, stmts, 1, <<>>, 1), LAMBDA r :
         [found |-> TRUE, panic |-> r.panic,
          stmts |-> SelectSeq(r.stmts, LAMBDA s : s.t = "SVar" /\ s.kind = "var")
                    \o SelectSeq(r.stmts, LAMBDA s : ~(s.t = "SVar" /\ s.kind = "var"))])

\* Fold<Vec<T>> for Destructuring on statements without nested statement
\* lists: the value of has_destruturing, the list returned, and the panic
\* message if a folder aborted
DestructuringFoldVec(c, stmts) ==
    IF ~HasDestructuringIn(stmts)
    THEN [found |-> FALSE, stmts |-> stmts, panic |-> ""]
    ELSE [found |-> TRUE] @@ FoldStmtsLoop(c, stmts, 1, <<>>, 1)

\* the statements of a list: without a pattern, with identifier patterns
\* only, with an expression as the target of an assignment, and with an
\* array, an object, a default and a rest pattern
VecStmts ==
    {SExpr(Ident("a")),
     SVar("let", <<Declarator(PIdent(Ident("a")), Num(1))>>),
     ExportDecl(SVar("let", <<Declarator(PIdent(Ident("b")), Ident("o"))>>)),
     SExpr(Assign(PIdent(Ident("a")), Num(1))),
     SExpr(Assign(LExpr(Member(Ident("o"), Ident("p"), FALSE)), Num(1))),
     SExpr(Assign(PExpr(Member(Ident("o"), Ident("p"), FALSE)), Num(1))),
     SVar("let", <<Declarator(PArray(<<PIdent(Ident("a"))>>), Ident("o"))>>),
     SVar("let", <<Declarator(PObject(<<AssignProp(Ident("b"), Nil)>>), Ident("o"))>>),
     SVar("let", <<Declarator(PArray(<<PAssign(PIdent(Ident("a")), Num(3))>>), Ident("o"))>>),
     SExpr(Assign(PArray(<<PRest(PIdent(Ident("r")))>>), Ident("o")))}

VecInputs ==
    {[c |-> [loose |-> l], stmts |-> s] :
        l \in BOOLEAN, s \in SeqsUpTo(VecStmts, MaxStmts)}

InitVec ==
    /\ unit = "vec"
    /\ pc = "start"
    /\ vecIn \in VecInputs
    /\ vecOut = Nil
    /\ FirstIdle
    /\ NullIdle /\ FnIdle /\ LineIdle /\ MelIdle

\* Destructuring folds the statement list
CallFoldVec ==
    /\ unit = "vec" /\ pc = "start"
    /\ vecOut' = DestructuringFoldVec(vecIn.c, vecIn.stmts)
    /\ pc' = "folded"
    /\ UNCHANGED <<vecIn, OutsideVec>>

NextVec == CallFoldVec

SpecVec == InitVec /\ [][NextVec]_vars

\* the kinds of the patterns that occur in a pattern, an expression, a
\* statement
RECURSIVE PatKindsOfPat(_)
RECURSIVE PatKindsOfExpr(_)
PatKindsOfPat(p) ==
    {p.t} \cup
    CASE p.t = "PArray" ->
            UNION {IF p.elems[i] = Nil THEN {} ELSE PatKindsOfPat(p.elems[i]) :
                      i \in 1..Len(p.elems)}
      [] p.t = "PRest" -> PatKindsOfPat(p.arg)
      [] p.t = "PObject" ->
            UNION {IF p.props[i].t = "KeyValue" THEN PatKindsOfPat(p.props[i].value)
                   ELSE {} : i \in 1..Len(p.props)}
      [] p.t = "PAssign" -> PatKindsOfPat(p.left) \cup PatKindsOfExpr(p.right)
      [] p.t = "PExpr" -> PatKindsOfExpr(p.expr)
      [] OTHER -> {}

PatKindsOfExpr(e) ==
    CASE e.t = "Assign" ->
            (IF e.left.t = "LExpr" THEN PatKindsOfExpr(e.left.expr)
             ELSE PatKindsOfPat(e.left))
            \cup PatKindsOfExpr(e.right)
      [] e.t = "Member" -> PatKindsOfExpr(e.obj) \cup PatKindsOfExpr(e.prop)
      [] e.t = "Paren" -> PatKindsOfExpr(e.expr)
      [] OTHER -> {}

RECURSIVE PatKindsOfStmt(_)
PatKindsOfStmt(s) ==
    CASE s.t = "SExpr" -> PatKindsOfExpr(s.expr)
      [] s.t = "SVar" ->
            UNION {PatKindsOfPat(s.decls[i].name)
                   \cup (IF s.decls[i].init = Nil THEN {}
                         ELSE PatKindsOfExpr(s.decls[i].init)) : i \in 1..Len(s.decls)}
      [] s.t = "ExportDecl" -> PatKindsOfStmt(s.decl)
      [] OTHER -> {}

PatKindsIn(stmts) == UNION {PatKindsOfStmt(stmts[i]) : i \in 1..Len(stmts)}

VecFolded == unit = "vec" /\ pc = "folded"

\* C18 as stated: the fold of a statement list returns the list as it is
\* when no pattern other than an identifier pattern occurs in it, and
\* has_destruturing is true exactly when an array, object, default or rest
\* pattern occurs in it.
C18_FastPathIffDestructuring ==
    VecFolded =>
        /\ PatKindsIn(vecIn.stmts) \subseteq {"PIdent"} =>
              (vecOut.stmts = vecIn.stmts /\ vecOut.panic = "")
        /\ vecOut.found <=>
              PatKindsIn(vecIn.stmts) \cap {"PArray", "PObject", "PAssign", "PRest"} # {}

\* C18: the fold of a statement list returns the list as it is when no
\* pattern other than an identifier pattern occurs in it, and
\* has_destruturing is true exactly when some pattern that is not an
\* identifier pattern occurs in it: an array, object, default or rest
\* pattern, or an expression that stands as a pattern.
C18_FastPathIffNonIdentPattern ==
    VecFolded =>
        /\ PatKindsIn(vecIn.stmts) \subseteq {"PIdent"} =>
              (vecOut.stmts = vecIn.stmts /\ vecOut.panic = "")
        /\ vecOut.found <=> ~(PatKindsIn(vecIn.stmts) \subseteq {"PIdent"})

\* statement k of the list returned is an inserted `var` declaration (the
\* lists handed in hold `let` declarations only)
Inserted(k) == vecOut.stmts[k].t = "SVar" /\ vecOut.stmts[k].kind = "var"

\* the statements returned that are not inserted declarations
KeptStmts == SelectSeq(vecOut.stmts, LAMBDA s : ~(s.t = "SVar" /\ s.kind = "var"))

\* identifier x is read or assigned in statement s
RECURSIVE MentionedIn(_, _)
MentionedIn(x, s) ==
    CASE s.t = "SExpr" -> OccursIn(x, s.expr)
      [] s.t = "SVar" ->
            \E i \in 1..Len(s.decls) :
                \/ s.decls[i].name = PIdent(x)
                \/ s.decls[i].init # Nil /\ OccursIn(x, s.decls[i].init)
      [] s.t = "ExportDecl" -> MentionedIn(x, s.decl)
      [] OTHER -> FALSE

\* C24: when Destructuring folds a statement list, the temporaries a
\* statement's own folder gathered in vars are declared in one `var`
\* declaration right before that statement; a statement without a
\* temporary gets no declaration, the statements keep their order, and no
\* temporary of a statement is declared before an earlier statement.
C24_VarsBeforeOwnStatement ==
    (VecFolded /\ vecOut.found /\ vecOut.panic = "") =>
        LET out == vecOut.stmts
            \* what a folder of its own makes of statement i
            Alone(i) == AFoldStmt(NewAssignFolder(vecIn.c.loose), vecIn.stmts[i])
            \* the place of the i-th kept statement in the list returned
            PlaceOf(i) ==
                CHOOSE k \in 1..Len(out) :
                    /\ ~Inserted(k)
                    /\ Cardinality({j \in 1..k : ~Inserted(j)}) = i
        IN  /\ Len(KeptStmts) = Len(vecIn.stmts)
            /\ \A i \in 1..Len(vecIn.stmts) :
                  /\ KeptStmts[i].t = vecIn.stmts[i].t
                  /\ ~HasDestructuring(vecIn.stmts[i]) => KeptStmts[i] = vecIn.stmts[i]
                  /\ IF Alone(i).a.vars = <<>>
                     THEN PlaceOf(i) = 1 \/ ~Inserted(PlaceOf(i) - 1)
                     ELSE /\ PlaceOf(i) > 1
                          /\ Inserted(PlaceOf(i) - 1)
                          /\ Len(out[PlaceOf(i) - 1].decls) = Len(Alone(i).a.vars)
                          /\ PlaceOf(i) = 2 \/ ~Inserted(PlaceOf(i) - 2)
            /\ \A k \in 1..Len(out) :
                  Inserted(k) =>
                      /\ k < Len(out)
                      /\ \A d \in 1..Len(out[k].decls) :
                            /\ out[k].decls[d].name.t = "PIdent"
                            /\ out[k].decls[d].init = Nil
                            /\ MentionedIn(out[k].decls[d].name.id, out[k + 1])
                            /\ \A j \in 1..(k - 1) :
                                  ~MentionedIn(out[k].decls[d].name.id, out[j])

\* `a; [...r] = o; [...r] = o;` was folded: each of the two assignments
\* has the declaration of its temporary right before it
C24_Witness ==
    /\ VecFolded /\ vecOut.found /\ vecOut.panic = ""
    /\ Len(vecIn.stmts) = 3
    /\ vecIn.stmts[1] = SExpr(Ident("a"))
    /\ Len(vecOut.stmts) = 5
    /\ ~Inserted(1) /\ Inserted(2) /\ ~Inserted(3) /\ Inserted(4) /\ ~Inserted(5)

\* a list of three statements with identifier patterns only came back as
\* it was
C18_Witness ==
    /\ VecFolded
    /\ Len(vecIn.stmts) = 3
    /\ PatKindsIn(vecIn.stmts) = {"PIdent"}
    /\ ~vecOut.found
    /\ vecOut.stmts = vecIn.stmts

(***************************************************************************)
(* Unit "line": lookup_line.  Indices are counted from 0 as in the source; *)
(* the element of index i of a slice is lines[i + 1] here.                 *)
(***************************************************************************)
\* [T]::binary_search on the part left..right of a sorted slice: Ok(index)
\* of the element found, or Err(index) where it would be inserted
RECURSIVE BinarySearch(_, _, _, _)
BinarySearch(lines, pos, left, right) ==
    IF left >= right THEN [ok |-> FALSE, line |-> left]
    ELSE LET mid == left + (right - left) \div 2
         IN  IF lines[mid + 1] < pos THEN BinarySearch(lines, pos, mid + 1, right)
             ELSE IF lines[mid + 1] > pos THEN BinarySearch(lines, pos, left, mid)
             ELSE [ok |-> TRUE, line |-> mid]

\* lookup_line that returns the insertion index as it is
LookupLineNoStepBack(lines, pos) ==
    BinarySearch(lines, pos, 0, Len(lines)).line

\* lookup_line
LookupLine(lines, pos) ==
    Let(BinarySearch(lines, pos, 0, Len(lines)), LAMBDA r :
    IF r.ok THEN r.line ELSE r.line - 1)

\* SourceFile::lookup_line with line 0 taken for "before the first line"
SourceFileLookupLineFromOne(lines, pos) ==
    IF lines = <<>> THEN [panic |-> FALSE, v |-> Nil]
    ELSE Let(LookupLine(lines, pos), LAMBDA line_index :
         IF ~(line_index < Len(lines)) THEN [panic |-> TRUE, v |-> Nil]
         ELSE [panic |-> FALSE,
               v |-> IF line_index > 0 THEN Some(line_index) ELSE Nil])

\* SourceFile::lookup_line: None or Some(index), or the failed assertion
SourceFileLookupLine(lines, pos) ==
    IF lines = <<>> THEN [panic |-> FALSE, v |-> Nil]
    ELSE Let(LookupLine(lines, pos), LAMBDA line_index :
         IF ~(line_index < Len(lines)) THEN [panic |-> TRUE, v |-> Nil]
         ELSE [panic |-> FALSE,
               v |-> IF line_index >= 0 THEN Some(line_index) ELSE Nil])

\* the strictly increasing lists of at most n line starts, each at least from
RECURSIVE IncreasingFrom(_, _)
IncreasingFrom(from, n) ==
    IF n = 0 THEN {<<>>}
    ELSE {<<>>} \cup UNION {{<<x>> \o l : l \in IncreasingFrom(x + 1, n - 1)} :
                               x \in from..MaxLinePos}

\* tests::test_lookup_line: the lines and the positions looked up
TestLines == <<3, 17, 28>>
TestPositions == {0, 3, 4, 16, 17, 18, 28, 29}

LineInputs ==
    {[lines |-> l, pos |-> p] : l \in IncreasingFrom(0, MaxLines), p \in 0..(MaxLinePos + 1)}
    \cup {[lines |-> TestLines, pos |-> p] : p \in TestPositions}

InitLine ==
    /\ unit = "line"
    /\ pc = "start"
    /\ lineIn \in LineInputs
    /\ lineOut = Nil
    /\ FirstIdle
    /\ NullIdle /\ FnIdle /\ VecIdle /\ MelIdle

CallLookupLine ==
    /\ unit = "line" /\ pc = "start"
    /\ lineOut' = LookupLine(lineIn.lines, lineIn.pos)
    /\ pc' = "found"
    /\ UNCHANGED <<lineIn, OutsideLine>>

\* SourceFile::lookup_line
CallSourceFileLookupLine ==
    /\ unit = "line" /\ pc = "start"
    /\ lineOut' = SourceFileLookupLine(lineIn.lines, lineIn.pos)
    /\ pc' = "looked"
    /\ UNCHANGED <<lineIn, OutsideLine>>

NextLine == CallLookupLine \/ CallSourceFileLookupLine

SpecLine == InitLine /\ [][NextLine]_vars

\* what test_lookup_line asserts
TestExpected ==
    [p \in TestPositions |->
        IF p < 3 THEN -1 ELSE IF p < 17 THEN 0 ELSE IF p < 28 THEN 1 ELSE 2]

\* C19: for a strictly increasing list of line starts, lookup_line returns
\* -1 for a position before the first line start and otherwise the one
\* index i with lines[i] <= pos and pos < lines[i + 1] (or i the last
\* index); with lines [3, 17, 28] it gives -1 for 0, 0 for 3, 4 and 16,
\* 1 for 17 and 18, 2 for 28 and 29.
C19_LookupLine ==
    (unit = "line" /\ pc = "found" /\ lineIn.lines # <<>>) =>
        LET lines == lineIn.lines
            pos == lineIn.pos
            \* index i (from 0) is the line of pos
            IsLineOf(i) ==
                /\ lines[i + 1] <= pos
                /\ i = Len(lines) - 1 \/ pos < lines[i + 2]
        IN  /\ IF pos < lines[1] THEN lineOut = -1
               ELSE /\ lineOut \in 0..(Len(lines) - 1)
                    /\ IsLineOf(lineOut)
                    /\ \A i \in 0..(Len(lines) - 1) : IsLineOf(i) => i = lineOut
            /\ lines = TestLines => lineOut = TestExpected[pos]

\* C30: SourceFile::lookup_line never fails its assertion
\* `line_index < lines.len()`; it returns None exactly when the line table
\* is empty or pos is before lines[0], and otherwise Some(i) with i an
\* index of lines.
C30_SourceFileLookupLine ==
    (unit = "line" /\ pc = "looked") =>
        /\ ~lineOut.panic
        /\ lineOut.v = Nil <=>
              (lineIn.lines = <<>> \/ lineIn.pos < lineIn.lines[1])
        /\ lineOut.v # Nil =>
              /\ lineOut.v.t = "Some"
              /\ lineOut.v.v \in 0..(Len(lineIn.lines) - 1)

\* a position after the last of three line starts was looked up: Some(2)
C30_Witness ==
    /\ unit = "line" /\ pc = "looked"
    /\ Len(lineIn.lines) = 3
    /\ lineIn.pos > lineIn.lines[3]
    /\ lineOut = [panic |-> FALSE, v |-> Some(2)]

\* position 18 was looked up in the lines [3, 17, 28]: line 1
C19_Witness ==
    /\ unit = "line" /\ pc = "found"
    /\ lineIn = [lines |-> TestLines, pos |-> 18]
    /\ lineOut = 1

(***************************************************************************)
(* Unit "mel": Fold<MemberExpr> for MemberExprLit.  A name (JsWord) is the *)
(* sequence of its characters.                                             *)
(***************************************************************************)
Letters == {"a", "b", "c", "f", "i", "n", "o", "r", "s", "t", "v"}
Digits == {"1"}

\* Lit::Str with its has_escape flag
StrLit(value, has_escape) == [t |-> "Str", value |-> value, has_escape |-> has_escape]

\* words of the ES3 reserved list that occur among the names
Es3ReservedWords == {<<"v", "a", "r">>, <<"c", "o", "n", "s", "t">>, <<"i", "n", "t">>}

\* JsWord::is_reserved_for_es3
IsReservedForEs3(sym) == sym \in Es3ReservedWords

\* util::is_valid_ident: a start character, then continue characters
IsValidIdent(sym) ==
    /\ sym # <<>>
    /\ sym[1] \in Letters
    /\ \A i \in 2..Len(sym) : sym[i] \in Letters \cup Digits

\* handle! with the test for reserved words left out
HandleValidOnly(e, sym) ==
    IF ~IsValidIdent(sym)
    THEN Member(e.obj, StrLit(sym, FALSE), TRUE)
    ELSE Member(e.obj, Ident(sym), FALSE)

\* handle!($sym, $span)
Handle(e, sym) ==
    IF IsReservedForEs3(sym) \/ ~IsValidIdent(sym)
    THEN Member(e.obj, StrLit(sym, FALSE), TRUE)
    ELSE Member(e.obj, Ident(sym), FALSE)

\* MemberExpr::fold_children and the other expressions' fold_children
RECURSIVE MelFoldExpr(_)

\* Fold<MemberExpr> for MemberExprLit with every string literal property
\* turned into an identifier
MelFoldMemberStrToIdent(e0) ==
    Let(Member(MelFoldExpr(e0.obj), MelFoldExpr(e0.prop), e0.computed), LAMBDA e :
    IF e.prop.t = "Str" THEN Member(e.obj, Ident(e.prop.value), FALSE)
    ELSE IF e.prop.t = "Ident"
    THEN IF e.computed THEN e ELSE Handle(e, e.prop.sym)
    ELSE e)

\* Fold<MemberExpr> for MemberExprLit
MelFoldMember(e0) ==
    Let(Member(MelFoldExpr(e0.obj), MelFoldExpr(e0.prop), e0.computed), LAMBDA e :
    IF e.prop.t = "Str" THEN Handle(e, e.prop.value)
    ELSE IF e.prop.t = "Ident"
    THEN IF e.computed THEN e ELSE Handle(e, e.prop.sym)
    ELSE e)

MelFoldExpr(e) == IF e.t = "Member" THEN MelFoldMember(e) ELSE e

\* the names: every string of at most MaxNameLen characters over a letter,
\* a digit and a hyphen, and some words
MelNames ==
    SeqsUpTo({"a", "1", "-"}, MaxNameLen)
    \cup Es3ReservedWords
    \cup {<<"f", "o", "o">>, <<"b", "a", "r", "1">>}

\* the properties a member expression can have whether computed or not
MelNameProps ==
    {StrLit(n, h) : n \in MelNames, h \in BOOLEAN} \cup {Ident(n) : n \in MelNames}

\* member expressions whose objects nest at most d member expressions; a
\* computed property can also be a number or a member expression
MelMembers[d \in 1..MaxMemberDepth] ==
    LET objs == IF d = 1 THEN {Ident(<<"o">>)} ELSE MelMembers[d - 1]
    IN  {Member(o, p, c) : o \in objs, p \in MelNameProps, c \in BOOLEAN}
        \cup {Member(o, p, TRUE) :
                o \in objs,
                p \in {Num(0), Member(Ident(<<"o">>), StrLit(<<"f", "o", "o">>, FALSE), TRUE)}}

MelInputs == UNION {MelMembers[d] : d \in 1..MaxMemberDepth}

InitMel ==
    /\ unit = "mel"
    /\ pc = "start"
    /\ melIn \in MelInputs
    /\ melOut = Nil
    /\ melAgain = Nil
    /\ FirstIdle
    /\ NullIdle /\ FnIdle /\ VecIdle /\ LineIdle

\* the pass folds the member expression
CallMemberExprLit ==
    /\ unit = "mel" /\ pc = "start"
    /\ melOut' = MelFoldMember(melIn)
    /\ pc' = "folded"
    /\ UNCHANGED <<melIn, melAgain, OutsideMel>>

\* the pass folds its own output
CallMemberExprLitAgain ==
    /\ unit = "mel" /\ pc = "folded"
    /\ melAgain' = MelFoldMember(melOut)
    /\ pc' = "refolded"
    /\ UNCHANGED <<melIn, melOut, OutsideMel>>

NextMel == CallMemberExprLit \/ CallMemberExprLitAgain

SpecMel == InitMel /\ [][NextMel]_vars


\* obj["foo"], obj.const, obj["var"], foo[bar1]: the inputs of tests::basic
\* and tests::issue_206, and what the tests expect
MelTestObj == Ident(<<"o">>)
MelTests ==
    {<<Member(MelTestObj, StrLit(<<"f", "o", "o">>, FALSE), TRUE),
       Member(MelTestObj, Ident(<<"f", "o", "o">>), FALSE)>>,
     <<Member(MelTestObj, Ident(<<"c", "o", "n", "s", "t">>), FALSE),
       Member(MelTestObj, StrLit(<<"c", "o", "n", "s", "t">>, FALSE), TRUE)>>,
     <<Member(MelTestObj, StrLit(<<"v", "a", "r">>, FALSE), TRUE),
       Member(MelTestObj, StrLit(<<"v", "a", "r">>, FALSE), TRUE)>>,
     <<Member(MelTestObj, Ident(<<"b", "a", "r", "1">>), TRUE),
       Member(MelTestObj, Ident(<<"b", "a", "r", "1">>), TRUE)>>}

\* C21: a member expression whose property is a string literal, or an
\* identifier that is not computed, of name n comes out computed with the
\* string n as property when n is reserved in ES3 or is no valid
\* identifier, and not computed with the identifier n otherwise; a computed
\* member whose property is an identifier or another expression keeps its
\* property and its flag (`obj["foo"]` becomes `obj.foo`, `obj.const`
\* becomes `obj["const"]`, `obj["var"]` stays, `foo[bar1]` stays).
C21_MemberExprLit ==
    (unit = "mel" /\ pc \in {"folded", "refolded"}) =>
        LET p == melIn.prop
            named == p.t = "Str" \/ (p.t = "Ident" /\ ~melIn.computed)
            n == IF p.t = "Str" THEN p.value ELSE p.sym
        IN  /\ named /\ (IsReservedForEs3(n) \/ ~IsValidIdent(n)) =>
                  (melOut.computed /\ melOut.prop.t = "Str" /\ melOut.prop.value = n)
            /\ named /\ ~(IsReservedForEs3(n) \/ ~IsValidIdent(n)) =>
                  (~melOut.computed /\ melOut.prop = Ident(n))
            /\ ~named =>
                  /\ melOut.computed = melIn.computed
                  /\ p.t # "Member" => melOut.prop = p
                  /\ melIn.obj.t # "Member" /\ p.t # "Member" => melOut = melIn
            /\ melIn.obj.t # "Member" => melOut.obj = melIn.obj
            /\ \A t \in MelTests : melIn = t[1] => melOut = t[2]

\* `o["foo"]` was folded to `o.foo`
C21_Witness ==
    /\ unit = "mel" /\ pc = "folded"
    /\ melIn = Member(MelTestObj, StrLit(<<"f", "o", "o">>, FALSE), TRUE)
    /\ melOut = Member(MelTestObj, Ident(<<"f", "o", "o">>), FALSE)

\* C29: folding the result of the pass once more gives that result again,
\* with the same computed flag and the same property.
C29_IdempotentFold ==
    (unit = "mel" /\ pc = "refolded") => melAgain = melOut

\* `o.const.foo` was folded to `o["const"].foo` and folded again
C29_Witness ==
    /\ unit = "mel" /\ pc = "refolded"
    /\ melIn = Member(Member(MelTestObj, Ident(<<"c", "o", "n", "s", "t">>), FALSE),
                      Ident(<<"f", "o", "o">>), FALSE)
    /\ melOut # melIn
    /\ melAgain = melOut

Init ==
    \/ InitSpan \/ InitBom \/ InitCtor \/ InitD \/ InitNull \/ InitFn \/ InitVec \/ InitLine
    \/ InitMel

Next ==
    \/ NextSpan \/ NextBom \/ NextCtor \/ NextD \/ NextNull \/ NextFn \/ NextVec \/ NextLine
    \/ NextMel

Spec == Init /\ [][Next]_vars

====
